---- MODULE Spec2Model ----
(***************************************************************************)
(* Frame lifecycle of the atlas deferred renderer: the frame synchroniser  *)
(* (System), the swapchain-dependent G-buffer set (DeferredRenderPass) and *)
(* the RedrawEventsCleared iteration of the event loop.                    *)
(*                                                                         *)
(* The GPU is a second process: it completes submitted frames in           *)
(* submission order and signals their fences.  A GpuFuture chain           *)
(* (join / then_execute / then_swapchain_present / then_signal_fence)      *)
(* orders work on the queue; the only CPU-side wait the source performs    *)
(* is the explicit f.wait(None) of finish_frame.                           *)
(*                                                                         *)
(* The order of the steps of one iteration is that of the                  *)
(* RedrawEventsCleared arm of main.rs; the steps themselves are the        *)
(* methods of System and DeferredRenderPass.                               *)
(***************************************************************************)
EXTENDS Integers, Sequences, FiniteSets, TLC

\* ------------------------------------------------------------------ bounds
MaxImages == 3      \* swapchain image counts range over 2..MaxImages
MaxFaults == 2      \* environment disturbances (resize, stale surface, flush error)
MaxInFlight == 2    \* acquire_next_image(.., None) blocks at this many unfinished frames
MaxMeshes == 2      \* submeshes of a loaded scene range over 0..MaxMeshes
MaxFaces == 2       \* triangles of a submesh range over 1..MaxFaces
MaxEvents == 2      \* handle_event calls made on one camera

\* ------------------------------------------------------------- environment
InitialSize == <<3000, 2000>>   \* with_inner_size(LogicalSize::new(3000.0, 2000.0))

WinSizes == {<<0, 0>>, InitialSize, <<800, 600>>}

Supported(extent) == extent[1] > 0 /\ extent[2] > 0

ImageCounts == 2..MaxImages

VARIABLES
    pc,                  \* position of the event-loop callback
    previous_frame_end,  \* System.previous_frame_end
    recreate_swapchain,  \* System.recreate_swapchain
    swapchain,           \* System.swapchain
    images,              \* System.images
    viewport,            \* System.viewport.dimensions
    deferred,            \* DeferredRenderPass: framebuffers and G-buffer views
    winSize,             \* surface.window().inner_size()
    image_num,           \* local: index returned by acquire_image
    wait_for_last_frame, \* local: result of update_textures_egui
    command_buffer,      \* local: the recorded command buffer
    flushResult,         \* local: result of then_signal_fence_and_flush
    frames,              \* GPU queue: submitted frames, oldest first
    faults,              \* number of environment disturbances so far
    trace,               \* calls made by the current iteration, in order
    shadow_map,          \* ShadowMapRenderPass
    scene,               \* the russimp Scene read from the model file
    files,               \* the texture files that can be opened and decoded
    mesh,                \* the Mesh returned by load_gltf
    builder,             \* commands recorded by Mesh::render outside a frame
    shadow_depth,        \* contents of the shadow map's depth image
    camera,              \* the Camera
    uniform_data,        \* the CameraData built by the last call, if it built one
    last_call,           \* the last call made on the camera, with its argument
    events,              \* number of handle_event calls so far
    lighting_uniform,    \* the LightingData last written to the lighting uniform
    fragment             \* a texel of the last lighting draw: what went in and out

frameVars == <<pc, previous_frame_end, recreate_swapchain, swapchain, images, viewport,
               deferred, winSize, image_num, wait_for_last_frame, command_buffer,
               flushResult, frames, faults, trace, shadow_map>>

meshVars == <<scene, files, mesh, builder, shadow_depth>>

cameraVars == <<camera, uniform_data, last_call, events>>

lightVars == <<lighting_uniform, fragment>>

vars == <<frameVars, meshVars, cameraVars, lightVars>>

\* ------------------------------------------------------------ FrameEndFuture
None == [tag |-> "None"]

FrameEndFuture_now == [tag |-> "BoxedFuture"]

FenceSignalFuture == [tag |-> "FenceSignalFuture"]

\* ------------------------------------------------------------------ images
SwapchainImages(sc) ==
    [i \in 1..sc.count |-> [swap |-> sc.gen, index |-> i - 1, dims |-> sc.extent]]

AttachmentImage(kind, dimensions, id) ==
    [kind |-> kind, dims |-> dimensions, id |-> id]

window_size_dependent_setup_KeepsViewport(imgs) ==
    LET dimensions == imgs[1].dims
        id == imgs[1].swap
        depth_buffer == AttachmentImage("depth", dimensions, id)
        color_buffer == AttachmentImage("albedo", dimensions, id)
        normal_buffer == AttachmentImage("normal", dimensions, id)
        position_buffer == AttachmentImage("position", dimensions, id)
    IN  [viewport |-> viewport,
         framebuffers |->
            [i \in 1..Len(imgs) |->
                [view |-> imgs[i],
                 albedo |-> color_buffer,
                 normal |-> normal_buffer,
                 position |-> position_buffer,
                 depth |-> depth_buffer]],
         color_buffer |-> color_buffer,
         normal_buffer |-> normal_buffer,
         position_buffer |-> position_buffer]

window_size_dependent_setup_TransposedDepth(imgs) ==
    LET dimensions == imgs[1].dims
        id == imgs[1].swap
        depth_buffer == AttachmentImage("depth", <<dimensions[2], dimensions[1]>>, id)
        color_buffer == AttachmentImage("albedo", dimensions, id)
        normal_buffer == AttachmentImage("normal", dimensions, id)
        position_buffer == AttachmentImage("position", dimensions, id)
    IN  [viewport |-> dimensions,
         framebuffers |->
            [i \in 1..Len(imgs) |->
                [view |-> imgs[i],
                 albedo |-> color_buffer,
                 normal |-> normal_buffer,
                 position |-> position_buffer,
                 depth |-> depth_buffer]],
         color_buffer |-> color_buffer,
         normal_buffer |-> normal_buffer,
         position_buffer |-> position_buffer]

window_size_dependent_setup_FirstViewOnly(imgs) ==
    LET dimensions == imgs[1].dims
        id == imgs[1].swap
        depth_buffer == AttachmentImage("depth", dimensions, id)
        color_buffer == AttachmentImage("albedo", dimensions, id)
        normal_buffer == AttachmentImage("normal", dimensions, id)
        position_buffer == AttachmentImage("position", dimensions, id)
    IN  [viewport |-> dimensions,
         framebuffers |->
            [i \in 1..Len(imgs) |->
                [view |-> imgs[1],
                 albedo |-> color_buffer,
                 normal |-> normal_buffer,
                 position |-> position_buffer,
                 depth |-> depth_buffer]],
         color_buffer |-> color_buffer,
         normal_buffer |-> normal_buffer,
         position_buffer |-> position_buffer]

window_size_dependent_setup(imgs) ==
    LET dimensions == imgs[1].dims
        id == imgs[1].swap
        depth_buffer == AttachmentImage("depth", dimensions, id)
        color_buffer == AttachmentImage("albedo", dimensions, id)
        normal_buffer == AttachmentImage("normal", dimensions, id)
        position_buffer == AttachmentImage("position", dimensions, id)
    IN  [viewport |-> dimensions,
         framebuffers |->
            [i \in 1..Len(imgs) |->
                [view |-> imgs[i],
                 albedo |-> color_buffer,
                 normal |-> normal_buffer,
                 position |-> position_buffer,
                 depth |-> depth_buffer]],
         color_buffer |-> color_buffer,
         normal_buffer |-> normal_buffer,
         position_buffer |-> position_buffer]

\* an object behind an Arc: what it is and which instance
Arc(what, id) == [obj |-> what, id |-> id]

\* RendererParams as get_default_params builds them; the four-component
\* vectors are kept as the expressions of the source
get_default_params ==
    [ambient_color |-> <<"1.0", "1.0", "1.0", "0.3">>,
     directional_direction |-> <<"0.0", "-PI/2", "-PI/2", "0.0">>,
     directional_color |-> <<"1.0", "1.0", "1.0", "0.3">>,
     preview_buffer |-> "FinalOutput"]

\* `preview_buffer as i32`: the discriminant the enum declares
as_i32_NormalPositionSwapped(preview_buffer) ==
    CASE preview_buffer = "FinalOutput" -> 0
      [] preview_buffer = "Albedo" -> 1
      [] preview_buffer = "Normal" -> 3
      [] preview_buffer = "Position" -> 2

as_i32(preview_buffer) ==
    CASE preview_buffer = "FinalOutput" -> 0
      [] preview_buffer = "Albedo" -> 1
      [] preview_buffer = "Normal" -> 2
      [] preview_buffer = "Position" -> 3

\* get_lighting_uniform_buffer: the LightingData copied out of the params
get_lighting_uniform_buffer_DefaultLights(params) ==
    [ambient_color |-> get_default_params.ambient_color,
     directional_direction |-> params.directional_direction,
     directional_color |-> get_default_params.directional_color,
     preview_type |-> as_i32(params.preview_buffer)]

get_lighting_uniform_buffer(params) ==
    [ambient_color |-> params.ambient_color,
     directional_direction |-> params.directional_direction,
     directional_color |-> params.directional_color,
     preview_type |-> as_i32(params.preview_buffer)]

NoLightingData ==
    [ambient_color |-> <<>>, directional_direction |-> <<>>,
     directional_color |-> <<>>, preview_type |-> -1]

\* the lighting formula of the fragment stage, kept as the tuple of what it
\* is computed from
Lit(u, texel) ==
    <<u.ambient_color, u.directional_direction, u.directional_color,
      texel.albedo, texel.normal, texel.position>>

\* lighting.frag: the output for one texel of the three input attachments
lighting_frag(u, texel) ==
    IF u.preview_type = 1 THEN texel.albedo
    ELSE IF u.preview_type = 2 THEN texel.normal
    ELSE IF u.preview_type = 3 THEN texel.position
    ELSE Lit(u, texel)

NoFragment == [selector |-> "none", texel |-> <<>>, out |-> <<>>]

NoDeferred ==
    [framebuffers |-> <<>>,
     color_buffer |-> AttachmentImage("none", <<0, 0>>, -1),
     normal_buffer |-> AttachmentImage("none", <<0, 0>>, -1),
     position_buffer |-> AttachmentImage("none", <<0, 0>>, -1),
     render_pass |-> Arc("none", -1),
     deferred_pipeline |-> Arc("none", -1),
     lighting_pipeline |-> Arc("none", -1),
     params |-> get_default_params]

\* shadow_map::image_setup: a fixed-size colour and depth attachment and their
\* framebuffer; it also writes its size into the viewport it is handed
ShadowMapDimensions == <<3000, 2000>>

image_setup ==
    LET color_buffer == AttachmentImage("shadow_color", ShadowMapDimensions, 0)
        shadow_map_buffer == AttachmentImage("shadow_map", ShadowMapDimensions, 0)
    IN  [viewport |-> ShadowMapDimensions,
         framebuffer |-> [color |-> color_buffer, depth |-> shadow_map_buffer],
         shadow_map_buffer |-> shadow_map_buffer]

\* the render pass shadow_map::init_render_pass declares: its attachments and
\* the attachments each of its passes uses
ShadowMapRenderPassDesc ==
    [obj |-> "RenderPass",
     id |-> 1,
     attachments |->
        [final_color |-> [load |-> "Clear", store |-> "Store",
                          format |-> "swapchain.image_format()", samples |-> 1],
         depth |-> [load |-> "Clear", store |-> "DontCare",
                    format |-> "D16_UNORM", samples |-> 1]],
     passes |-> <<[color |-> <<"final_color">>, depth_stencil |-> <<"depth">>,
                   input |-> <<>>]>>]

NoShadowMap ==
    [render_pass |-> Arc("none", -1),
     framebuffer |-> [color |-> AttachmentImage("none", <<0, 0>>, -1),
                      depth |-> AttachmentImage("none", <<0, 0>>, -1)],
     shadow_map_buffer |-> AttachmentImage("none", <<0, 0>>, -1),
     pipeline |-> Arc("none", -1)]

NoImage == [swap |-> -1, index |-> 0, dims |-> <<0, 0>>]

NoCommandBuffer ==
    [framebuffer |->
        [view |-> NoImage,
         albedo |-> AttachmentImage("none", <<0, 0>>, -1),
         normal |-> AttachmentImage("none", <<0, 0>>, -1),
         position |-> AttachmentImage("none", <<0, 0>>, -1),
         depth |-> AttachmentImage("none", <<0, 0>>, -1)],
     viewport |-> <<0, 0>>,
     commands |-> <<>>]

\* --------------------------------------------------------------- GPU queue
RECURSIVE SelectFrames(_, _)
SelectFrames(s, keepOwned) ==
    IF s = <<>> THEN <<>>
    ELSE LET f == Head(s)
             rest == SelectFrames(Tail(s), keepOwned)
         IN  IF f.done /\ (~keepOwned \/ ~f.owned) THEN rest ELSE <<f>> \o rest

\* a submitted frame: the G-buffer set its command buffer references, whether
\* its fence has signalled, and whether the future in previous_frame_end owns it
SubmittedFrame(cmd) ==
    [attachments |-> cmd.framebuffer.albedo.id, done |-> FALSE, owned |-> TRUE]

\* frames whose fence has not signalled
InFlight == {i \in 1..Len(frames) : ~frames[i].done}

\* the fence of the future held in previous_frame_end has signalled
FenceSignalled == \A i \in 1..Len(frames) : frames[i].owned => frames[i].done

\* the future is dropped: the frames it owned are no longer tracked
DropFuture(s) ==
    SelectFrames([i \in 1..Len(s) |-> [s[i] EXCEPT !.owned = FALSE]], TRUE)

\* -------------------------------------------------------------------- mesh
Some(x) == [tag |-> "Some", value |-> x]

\* a recorded command
Cmd(op, arg) == [op |-> op, arg |-> arg]

\* the outcome of a call: it returned a value, or it panicked
Ok(x) == [ok |-> TRUE, value |-> x]

Panic(msg) == [ok |-> FALSE, panic |-> msg]

DefaultTexturePath == <<"", "assets/models/sponza/16011208436118768083.png">>

\* load_png_file: File::open(path).expect(..), then load_png
load_png_file(path) ==
    IF path \in files
    THEN Ok([source |-> "file", at |-> path])
    ELSE Panic("Could not open file")

\* load_png of the bytes embedded in the scene
load_png(bytes) == Ok([source |-> "bytes", at |-> bytes])

\* get_descriptor_set: a new descriptor set with the texture's view at binding 0
get_descriptor_set(texture, id) ==
    [obj |-> "PersistentDescriptorSet", image |-> texture, id |-> id]

load_default_texture == load_png_file(DefaultTexturePath)

\* the texture chosen by load_material: Ok(None), Ok(Some(texture)) or a panic
ResultTex(assimp_material, base_dir) ==
    LET base_textures == assimp_material.base_color
    IN  IF base_textures # None
        THEN IF base_textures.value = <<>>
             THEN Panic("called Option::unwrap() on a None value")
             ELSE LET assimp_texture == Head(base_textures.value)
                  IN  IF assimp_texture.path # ""
                      THEN LET t == load_png_file(<<base_dir, assimp_texture.path>>)
                           IN  IF t.ok THEN Ok(Some(t.value)) ELSE t
                      ELSE IF assimp_texture.ach_format_hint # "png"
                      THEN Panic("Encompassed texture data should be in png format")
                      ELSE IF assimp_texture.data = None
                      THEN Panic("Unexpected texture data")
                      ELSE IF assimp_texture.data.value.kind = "Texel"
                      THEN Panic("Loading textures by texels is not yet supported")
                      ELSE LET t == load_png(assimp_texture.data.value.bytes)
                           IN  IF t.ok THEN Ok(Some(t.value)) ELSE t
        ELSE Ok(None)

\* load_material; id names the descriptor set that this call creates
load_material_NoFallback(assimp_material, base_dir, id) ==
    LET result_tex == ResultTex(assimp_material, base_dir)
    IN  IF ~result_tex.ok THEN result_tex
        ELSE IF result_tex.value = None
        THEN Ok([uniform_set |-> None])
        ELSE Ok([uniform_set |-> Some(get_descriptor_set(result_tex.value.value, id))])

load_material(assimp_material, base_dir, id) ==
    LET result_tex == ResultTex(assimp_material, base_dir)
    IN  IF ~result_tex.ok THEN result_tex
        ELSE IF result_tex.value = None
        THEN LET t == load_default_texture
             IN  IF t.ok
                 THEN Ok([uniform_set |-> Some(get_descriptor_set(t.value, id))])
                 ELSE t
        ELSE Ok([uniform_set |-> Some(get_descriptor_set(result_tex.value.value, id))])

\* CpuAccessibleBuffer::from_iter over a Vec of the given length
CpuAccessibleBuffer(of, owner, len) == [of |-> of, owner |-> owner, len |-> len]

\* the body of the loop of load_gltf for the i-th mesh of the scene
LoadMeshBuffer_NoUvCheck(sc, i) ==
    LET m == sc.meshes[i]
    IN  IF ~(m.material_index + 1 \in DOMAIN sc.materials)
        THEN Panic("called Option::unwrap() on a None value")
        ELSE LET material == load_material(sc.materials[m.material_index + 1],
                                           sc.base_dir, i)
             IN  IF ~material.ok THEN material
                 ELSE Ok([vertex_buffer |-> CpuAccessibleBuffer("Vertex", i, m.vertices),
                          normal_buffer |-> CpuAccessibleBuffer("Normal", i, m.normals),
                          index_buffer |-> CpuAccessibleBuffer("u32", i, 3 * m.faces),
                          tex_coord_buffer |->
                              IF m.texture_coords = None
                              THEN CpuAccessibleBuffer("TexCoord", i, 0)
                              ELSE CpuAccessibleBuffer("TexCoord", i, m.texture_coords.value),
                          material |-> material.value])

LoadMeshBuffer(sc, i) ==
    LET m == sc.meshes[i]
    IN  IF ~(m.material_index + 1 \in DOMAIN sc.materials)
        THEN Panic("called Option::unwrap() on a None value")
        ELSE LET material == load_material(sc.materials[m.material_index + 1],
                                           sc.base_dir, i)
             IN  IF ~material.ok THEN material
                 ELSE IF m.texture_coords = None
                 THEN Panic("Could not find texture coordinates")
                 ELSE Ok([vertex_buffer |-> CpuAccessibleBuffer("Vertex", i, m.vertices),
                          normal_buffer |-> CpuAccessibleBuffer("Normal", i, m.normals),
                          index_buffer |-> CpuAccessibleBuffer("u32", i, 3 * m.faces),
                          tex_coord_buffer |->
                              CpuAccessibleBuffer("TexCoord", i, m.texture_coords.value),
                          material |-> material.value])

\* load_gltf: the meshes are loaded in scene order and the first panic ends
\* the load; otherwise the Mesh holds one MeshBuffer per mesh of the scene
load_gltf(sc) ==
    LET loaded == [i \in 1..Len(sc.meshes) |-> LoadMeshBuffer(sc, i)]
        failed == {i \in 1..Len(sc.meshes) : ~loaded[i].ok}
    IN  IF failed # {}
        THEN loaded[CHOOSE i \in failed : \A j \in failed : i <= j]
        ELSE Ok([mesh_buffers |-> [i \in 1..Len(sc.meshes) |-> loaded[i].value],
                 materials |-> <<>>,
                 model_matrix |-> "from_scale(1.0)"])

\* len as u32: the low 32 bits
AsU32(n) ==
    IF n \div 65536 < 65536 THEN n
    ELSE (((n \div 65536) % 65536) * 65536) + (n % 65536)

\* the commands of one pass of the loop of Mesh::render
RenderMeshBuffer_VertexCount(mesh_buffer, pipeline, general_set) ==
    LET vertex_buffers == <<mesh_buffer.vertex_buffer, mesh_buffer.normal_buffer,
                            mesh_buffer.tex_coord_buffer>>
        uniform_set == mesh_buffer.material.uniform_set
    IN  IF uniform_set = None
        THEN <<Cmd("panic", "called Option::unwrap() on a None value")>>
        ELSE <<Cmd("bind_descriptor_sets",
                   [layout |-> pipeline, first_set |-> 0,
                    sets |-> <<general_set, uniform_set.value>>]),
               Cmd("bind_vertex_buffers", [first_binding |-> 0, buffers |-> vertex_buffers]),
               Cmd("bind_index_buffer", mesh_buffer.index_buffer),
               Cmd("draw_indexed",
                   <<AsU32(mesh_buffer.vertex_buffer.len), 1, 0, 0, 0>>)>>

RenderMeshBuffer(mesh_buffer, pipeline, general_set) ==
    LET vertex_buffers == <<mesh_buffer.vertex_buffer, mesh_buffer.normal_buffer,
                            mesh_buffer.tex_coord_buffer>>
        uniform_set == mesh_buffer.material.uniform_set
    IN  IF uniform_set = None
        THEN <<Cmd("panic", "called Option::unwrap() on a None value")>>
        ELSE <<Cmd("bind_descriptor_sets",
                   [layout |-> pipeline, first_set |-> 0,
                    sets |-> <<general_set, uniform_set.value>>]),
               Cmd("bind_vertex_buffers", [first_binding |-> 0, buffers |-> vertex_buffers]),
               Cmd("bind_index_buffer", mesh_buffer.index_buffer),
               Cmd("draw_indexed",
                   <<AsU32(mesh_buffer.index_buffer.len), 1, 0, 0, 0>>)>>

\* Mesh::render: the builder after the loop over self.mesh_buffers
RECURSIVE RenderMeshBuffers(_, _, _, _)
RenderMeshBuffers(mesh_buffers, b, pipeline, general_set) ==
    IF mesh_buffers = <<>> \/ (b # <<>> /\ b[Len(b)].op = "panic") THEN b
    ELSE RenderMeshBuffers(Tail(mesh_buffers),
                           b \o RenderMeshBuffer(Head(mesh_buffers), pipeline, general_set),
                           pipeline, general_set)

Mesh_render(self, b, pipeline, general_set) ==
    RenderMeshBuffers(self.mesh_buffers, b, pipeline, general_set)

\* ------------------------------------------------------------------ camera
\* Vectors are integer triples and angles are whole quarter turns, so that
\* cgmath's formulas are computed exactly; every direction the camera takes
\* is then a unit vector along an axis.
Vec3(x, y, z) == <<x, y, z>>

Cross(a, b) ==
    <<(a[2] * b[3]) - (a[3] * b[2]),
      (a[3] * b[1]) - (a[1] * b[3]),
      (a[1] * b[2]) - (a[2] * b[1])>>

Dot(a, b) == (a[1] * b[1]) + (a[2] * b[2]) + (a[3] * b[3])

VAdd(a, b) == <<a[1] + b[1], a[2] + b[2], a[3] + b[3]>>

VScale(a, k) == <<a[1] * k, a[2] * k, a[3] * k>>

Sgn(x) == IF x > 0 THEN 1 ELSE IF x < 0 THEN -1 ELSE 0

\* v.normalize(), for a vector along an axis
Normalize(v) == <<Sgn(v[1]), Sgn(v[2]), Sgn(v[3])>>

unit_y == Vec3(0, 1, 0)

\* cos and sin of q quarter turns
Cos(q) == LET r == q % 4 IN IF r = 0 THEN 1 ELSE IF r = 2 THEN -1 ELSE 0

Sin(q) == LET r == q % 4 IN IF r = 1 THEN 1 ELSE IF r = 3 THEN -1 ELSE 0

\* Matrix3::from_axis_angle, as its three columns
from_axis_angle(axis, q) ==
    LET c == Cos(q)
        sn == Sin(q)
        k == 1 - c
        x == axis[1]
        y == axis[2]
        z == axis[3]
    IN  <<<<(k * x * x) + c, (k * x * y) + (sn * z), (k * x * z) - (sn * y)>>,
          <<(k * x * y) - (sn * z), (k * y * y) + c, (k * y * z) + (sn * x)>>,
          <<(k * x * z) + (sn * y), (k * y * z) - (sn * x), (k * z * z) + c>>>>

\* matrix * vector and matrix * matrix for column-major matrices of size n
MatVec(m, v) ==
    [r \in 1..Len(v) |->
        IF Len(v) = 3
        THEN (m[1][r] * v[1]) + (m[2][r] * v[2]) + (m[3][r] * v[3])
        ELSE (m[1][r] * v[1]) + (m[2][r] * v[2]) + (m[3][r] * v[3]) + (m[4][r] * v[4])]

MatMul(a, b) == [c \in 1..Len(b) |-> MatVec(a, b[c])]

\* Matrix4::from_scale
from_scale(k) ==
    <<<<k, 0, 0, 0>>, <<0, k, 0, 0>>, <<0, 0, k, 0>>, <<0, 0, 0, 1>>>>

from_translation(v) ==
    <<<<1, 0, 0, 0>>, <<0, 1, 0, 0>>, <<0, 0, 1, 0>>, <<v[1], v[2], v[3], 1>>>>

\* Matrix4::look_to_rh(eye, dir, up)
look_to_rh(eye, dir, up) ==
    LET f == Normalize(dir)
        sd == Normalize(Cross(f, up))
        u == Cross(sd, f)
    IN  <<<<sd[1], u[1], -f[1], 0>>,
          <<sd[2], u[2], -f[2], 0>>,
          <<sd[3], u[3], -f[3], 0>>,
          <<-Dot(eye, sd), -Dot(eye, u), Dot(eye, f), 1>>>>

\* cgmath::perspective(Rad(FRAC_PI_2), aspect, 5.0, 10000.0); the entries are
\* fractions <<numerator, denominator>> and aspect is width over height
perspective(aspect) ==
    LET zero == <<0, 1>>
    IN  <<<<(<<aspect[2], aspect[1]>>), zero, zero, zero>>,
          <<zero, (<<1, 1>>), zero, zero>>,
          <<zero, zero, (<<10000 + 5, 5 - 10000>>), (<<-1, 1>>)>>,
          <<zero, zero, (<<2 * 10000 * 5, 5 - 10000>>), zero>>>>

\* Matrix4::from_scale(1.0) with the entries as fractions
proj_from_scale_1 ==
    LET zero == <<0, 1>>
        one == <<1, 1>>
    IN  <<<<one, zero, zero, zero>>, <<zero, one, zero, zero>>,
          <<zero, zero, one, zero>>, <<zero, zero, zero, one>>>>

construct_camera ==
    LET forward == Vec3(0, 0, 1)
        up == Vec3(0, 1, 0)
    IN  [position |-> Vec3(0, 0, -3),
         forward |-> forward,
         up |-> up,
         right |-> Cross(forward, up),
         aspect_ratio |-> <<1, 1>>,
         proj |-> proj_from_scale_1,
         view |-> from_scale(1),
         world |-> from_scale(1),
         world_view |-> from_scale(1),
         mouse_rotation_start_coord |-> <<0, 0>>]

\* Camera::update
update_WorldTimesView(self) ==
    LET proj == perspective(self.aspect_ratio)
        view == look_to_rh(self.position, self.forward, self.up)
    IN  [self EXCEPT !.proj = proj,
                     !.view = view,
                     !.world_view = MatMul(self.world, view)]

update(self) ==
    LET proj == perspective(self.aspect_ratio)
        view == look_to_rh(self.position, self.forward, self.up)
    IN  [self EXCEPT !.proj = proj,
                     !.view = view,
                     !.world_view = MatMul(view, self.world)]

\* the part of handle_event that moves the camera
Moved(self, input) ==
    LET move_speed == IF input.held_shift THEN 5 ELSE 1
        step(p, key, v, sign) ==
            IF key \in input.keys_held THEN VAdd(p, VScale(v, sign * move_speed)) ELSE p
        p1 == step(self.position, "W", self.forward, 1)
        p2 == step(p1, "S", self.forward, -1)
        p3 == step(p2, "A", self.right, -1)
        p4 == step(p3, "D", self.right, 1)
        p5 == step(p4, "E", self.up, -1)
        p6 == step(p5, "F", self.up, 1)
    IN  [self EXCEPT !.position = p6]

\* the part of handle_event that rotates the camera
Rotated_KeepsUp(self, input) ==
    LET started == IF input.mouse_pressed
                   THEN [self EXCEPT !.mouse_rotation_start_coord = input.mouse]
                   ELSE self
    IN  IF input.mouse_held
        THEN LET diff == input.mouse_diff
                 transform == MatMul(from_axis_angle(self.up, -diff[1]),
                                     from_axis_angle(self.right, diff[2]))
                 forward == Normalize(MatVec(transform, self.forward))
                 up == IF input.held_control
                       THEN Normalize(MatVec(transform, self.up))
                       ELSE self.up
             IN  [started EXCEPT !.forward = forward,
                                 !.up = up,
                                 !.right = Cross(forward, up)]
        ELSE started

Rotated_StaleRight(self, input) ==
    LET started == IF input.mouse_pressed
                   THEN [self EXCEPT !.mouse_rotation_start_coord = input.mouse]
                   ELSE self
    IN  IF input.mouse_held
        THEN LET diff == input.mouse_diff
                 transform == MatMul(from_axis_angle(self.up, -diff[1]),
                                     from_axis_angle(self.right, diff[2]))
                 forward == Normalize(MatVec(transform, self.forward))
                 up == IF input.held_control
                       THEN Normalize(MatVec(transform, self.up))
                       ELSE unit_y
             IN  [started EXCEPT !.forward = forward,
                                 !.up = up]
        ELSE started

Rotated(self, input) ==
    LET started == IF input.mouse_pressed
                   THEN [self EXCEPT !.mouse_rotation_start_coord = input.mouse]
                   ELSE self
    IN  IF input.mouse_held
        THEN LET diff == input.mouse_diff
                 transform == MatMul(from_axis_angle(self.up, -diff[1]),
                                     from_axis_angle(self.right, diff[2]))
                 forward == Normalize(MatVec(transform, self.forward))
                 up == IF input.held_control
                       THEN Normalize(MatVec(transform, self.up))
                       ELSE unit_y
             IN  [started EXCEPT !.forward = forward,
                                 !.up = up,
                                 !.right = Cross(forward, up)]
        ELSE started

\* CameraInputLogic::handle_event
handle_event(self, input) == Rotated(Moved(self, input), input)

\* the [[f32; 4]; 4] that .into() makes of a Matrix4: the four columns
Into(m) == [c \in 1..4 |-> [r \in 1..4 |-> m[c][r]]]

\* Camera::get_uniform_buffer: the camera after the call and the CameraData
get_uniform_buffer(self, extent, world) ==
    LET updated == update([self EXCEPT !.aspect_ratio = <<extent[1], extent[2]>>,
                                       !.world = world])
    IN  [camera |-> updated,
         uniform_data |-> [world_view |-> Into(updated.world_view),
                           world |-> Into(updated.world),
                           view |-> Into(updated.view),
                           proj |-> Into(updated.proj)]]

\* ----------------------------------------------------------- camera inputs
Keys == {"W", "S", "A", "D", "E", "F"}

\* mouse_diff, in quarter turns of the resulting angle
MouseDiffs == {<<dx, dy>> : dx \in -1..1, dy \in -1..1}

\* nothing held, nothing moved
NoInput ==
    [keys_held |-> {}, held_shift |-> FALSE, held_control |-> FALSE,
     mouse_pressed |-> FALSE, mouse |-> <<0, 0>>, mouse_held |-> FALSE,
     mouse_diff |-> <<0, 0>>]

\* one movement key held, with or without shift
MoveInputs ==
    {[NoInput EXCEPT !.keys_held = {k}, !.held_shift = sh] : k \in Keys, sh \in BOOLEAN}

\* the secondary button held and the mouse moved, with or without control
DragInputs ==
    {[NoInput EXCEPT !.mouse_held = TRUE, !.mouse_diff = d, !.held_control = c] :
        d \in MouseDiffs, c \in BOOLEAN}

\* the secondary button goes down at a position of the window
PressInputs ==
    {[NoInput EXCEPT !.mouse_held = TRUE, !.mouse_pressed = TRUE, !.mouse = <<10, 20>>]}

\* moving and turning in one event
MixedInputs ==
    {[NoInput EXCEPT !.keys_held = {"W", "D"}, !.held_shift = TRUE, !.mouse_held = TRUE,
                     !.mouse_diff = <<1, 1>>, !.held_control = TRUE]}

Inputs == {NoInput} \cup MoveInputs \cup DragInputs \cup PressInputs \cup MixedInputs

Worlds == {from_scale(2), from_translation(Vec3(1, 2, 3))}

NoUniformData == [world_view |-> <<>>, world |-> <<>>, view |-> <<>>, proj |-> <<>>]

\* what a handle_event call read of the buttons, and whether up was off the
\* world up axis when it was made
NoEvent == [mouse_held |-> FALSE, held_control |-> FALSE, rolled |-> FALSE]

EventOf(self, input) ==
    [mouse_held |-> input.mouse_held, held_control |-> input.held_control,
     rolled |-> self.up # unit_y]

\* a call made on the camera: its name, its argument, and for handle_event
\* (and the update that follows it) the event it handled
Call(op, arg, event) == [op |-> op, arg |-> arg, event |-> event]

\* ------------------------------------------------------------ scene inputs
AssimpTextures ==
    {[path |-> "albedo.png", ach_format_hint |-> "", data |-> None],
     [path |-> "missing.png", ach_format_hint |-> "", data |-> None],
     [path |-> "", ach_format_hint |-> "png",
      data |-> Some([kind |-> "Bytes", bytes |-> "embedded"])],
     [path |-> "", ach_format_hint |-> "png",
      data |-> Some([kind |-> "Texel", bytes |-> "embedded"])],
     [path |-> "", ach_format_hint |-> "jpg",
      data |-> Some([kind |-> "Bytes", bytes |-> "embedded"])],
     [path |-> "", ach_format_hint |-> "png", data |-> None]}

\* a material without a BaseColor entry, with an empty one, or with one texture
AssimpMaterials ==
    {[base_color |-> None], [base_color |-> Some(<<>>)]}
        \cup {[base_color |-> Some(<<t>>)] : t \in AssimpTextures}

AssimpMeshes(nmat) ==
    [vertices : {3}, normals : {3}, faces : 1..MaxFaces,
     texture_coords : {None, Some(3)}, material_index : 0..(nmat - 1)]

Scenes ==
    UNION {[base_dir : {"models/"},
            materials : [1..nmat -> AssimpMaterials],
            meshes : UNION {[1..n -> AssimpMeshes(nmat)] : n \in 0..MaxMeshes}]
           : nmat \in 1..2}

AllFiles == {DefaultTexturePath, <<"models/", "albedo.png">>}

\* the scene drawn by the frame loop: a textured submesh and an untextured one
FrameScene ==
    [base_dir |-> "models/",
     materials |-> <<[base_color |-> Some(<<[path |-> "albedo.png",
                                             ach_format_hint |-> "",
                                             data |-> None]>>)],
                     [base_color |-> None]>>,
     meshes |-> <<[vertices |-> 3, normals |-> 3, faces |-> 1,
                   texture_coords |-> Some(3), material_index |-> 0],
                  [vertices |-> 3, normals |-> 3, faces |-> 2,
                   texture_coords |-> Some(3), material_index |-> 1]>>]

NotLoaded == Panic("not loaded")

\* -------------------------------------------------------------------- Init
FrameInit ==
    /\ pc = "init"
    /\ previous_frame_end = FrameEndFuture_now
    /\ recreate_swapchain = TRUE
    /\ winSize = InitialSize
    /\ \E n \in ImageCounts : swapchain = [gen |-> 0, extent |-> winSize, count |-> n]
    /\ images = SwapchainImages(swapchain)
    /\ viewport = <<0, 0>>
    /\ deferred = NoDeferred
    /\ shadow_map = NoShadowMap
    /\ image_num = 0
    /\ wait_for_last_frame = FALSE
    /\ command_buffer = NoCommandBuffer
    /\ flushResult = "none"
    /\ frames = <<>>
    /\ faults = 0
    /\ trace = <<>>

\* the frame loop starts with the scene loaded
Init ==
    /\ FrameInit
    /\ scene = FrameScene
    /\ files = AllFiles
    /\ mesh = load_gltf(scene)
    /\ builder = <<>>
    /\ shadow_depth = "Unwritten"
    /\ camera = construct_camera
    /\ uniform_data = NoUniformData
    /\ last_call = Call("construct_camera", "", NoEvent)
    /\ events = 0
    /\ lighting_uniform = NoLightingData
    /\ fragment = NoFragment

\* ------------------------------------------------------------------ actions
\* deferred::init_render_pass
init_render_pass ==
    /\ pc = "init"
    /\ deferred = NoDeferred
    /\ LET r == window_size_dependent_setup(images)
       IN  /\ deferred' = [framebuffers |-> r.framebuffers,
                           color_buffer |-> r.color_buffer,
                           normal_buffer |-> r.normal_buffer,
                           position_buffer |-> r.position_buffer,
                           render_pass |-> Arc("RenderPass", 0),
                           deferred_pipeline |-> Arc("deferred_pipeline", 0),
                           lighting_pipeline |-> Arc("lighting_pipeline", 0),
                           params |-> get_default_params]
           /\ viewport' = r.viewport
    /\ pc' = (IF shadow_map = NoShadowMap THEN "init" ELSE "idle")
    /\ UNCHANGED <<previous_frame_end, recreate_swapchain, swapchain, images, winSize,
                   image_num, wait_for_last_frame, command_buffer, flushResult,
                   frames, faults, trace>>
    /\ UNCHANGED <<shadow_map, meshVars, cameraVars, lightVars>>

\* shadow_map::init_render_pass
shadow_map_init_render_pass ==
    /\ pc = "init"
    /\ shadow_map = NoShadowMap
    /\ LET r == image_setup
       IN  /\ shadow_map' = [render_pass |-> ShadowMapRenderPassDesc,
                             framebuffer |-> r.framebuffer,
                             shadow_map_buffer |-> r.shadow_map_buffer,
                             pipeline |-> Arc("shadow_map_pipeline", 0)]
           /\ viewport' = r.viewport
    /\ pc' = (IF deferred = NoDeferred THEN "init" ELSE "idle")
    /\ UNCHANGED <<previous_frame_end, recreate_swapchain, swapchain, images, deferred,
                   winSize, image_num, wait_for_last_frame, command_buffer, flushResult,
                   frames, faults, trace>>
    /\ UNCHANGED <<meshVars, cameraVars, lightVars>>

\* Event::WindowEvent { event: WindowEvent::Resized(_) }
Resized ==
    /\ pc = "idle"
    /\ faults < MaxFaults
    /\ \E w \in WinSizes \ {winSize} : winSize' = w
    /\ recreate_swapchain' = TRUE
    /\ faults' = faults + 1
    /\ UNCHANGED <<pc, previous_frame_end, swapchain, images, viewport, deferred,
                   image_num, wait_for_last_frame, command_buffer, flushResult,
                   frames, trace>>
    /\ UNCHANGED <<shadow_map, meshVars, cameraVars, lightVars>>

\* the as_mut().cleanup_finished() of the stored future: non-blocking, it
\* lets go of the frames whose fence has signalled
cleanup_finished ==
    /\ pc = "idle"
    /\ IF previous_frame_end = None
       THEN /\ pc' = "aborted"
            /\ UNCHANGED frames
       ELSE /\ pc' = "recreate"
            /\ frames' = SelectFrames(frames, FALSE)
    /\ trace' = <<"cleanup_finished">>
    /\ UNCHANGED <<previous_frame_end, recreate_swapchain, swapchain, images, viewport,
                   deferred, winSize, image_num, wait_for_last_frame, command_buffer,
                   flushResult, faults>>
    /\ UNCHANGED <<shadow_map, meshVars, cameraVars, lightVars>>

\* the fields of DeferredRenderPass assigned from a window_size_dependent_setup result
RebuiltDeferred_KeepsColorBuffer(r, old) ==
    [old EXCEPT !.framebuffers = r.framebuffers,
                !.normal_buffer = r.normal_buffer,
                !.position_buffer = r.position_buffer]

RebuiltDeferred_KeepsNormalBuffer(r, old) ==
    [old EXCEPT !.framebuffers = r.framebuffers,
                !.color_buffer = r.color_buffer,
                !.position_buffer = r.position_buffer]

RebuiltDeferred_NewPipelines(r, old) ==
    [old EXCEPT !.framebuffers = r.framebuffers,
                !.color_buffer = r.color_buffer,
                !.normal_buffer = r.normal_buffer,
                !.position_buffer = r.position_buffer,
                !.deferred_pipeline = Arc("deferred_pipeline", r.color_buffer.id),
                !.lighting_pipeline = Arc("lighting_pipeline", r.color_buffer.id)]

RebuiltDeferred(r, old) ==
    [old EXCEPT !.framebuffers = r.framebuffers,
                !.color_buffer = r.color_buffer,
                !.normal_buffer = r.normal_buffer,
                !.position_buffer = r.position_buffer]

\* Swapchain::recreate with image_extent = inner_size
SwapchainRecreate_KeepsExtent(sc, extent, n) ==
    [gen |-> sc.gen + 1, extent |-> sc.extent, count |-> n]

SwapchainRecreate(sc, extent, n) ==
    [gen |-> sc.gen + 1, extent |-> extent, count |-> n]

handle_recreate_swapchain_SkipContinues ==
    /\ pc = "recreate"
    /\ IF ~recreate_swapchain
       THEN /\ pc' = "acquire"
            /\ trace' = trace
            /\ UNCHANGED <<swapchain, deferred, viewport, recreate_swapchain>>
       ELSE IF ~Supported(winSize)
       THEN \* Err(ImageExtentNotSupported) => return
            /\ pc' = "acquire"
            /\ trace' = Append(trace, "recreate:ImageExtentNotSupported")
            /\ UNCHANGED <<swapchain, deferred, viewport, recreate_swapchain>>
       ELSE \/ \E n \in ImageCounts :
                 LET new_swapchain == SwapchainRecreate(swapchain, winSize, n)
                     new_images == SwapchainImages(new_swapchain)
                     r == window_size_dependent_setup(new_images)
                 IN  /\ swapchain' = new_swapchain
                     /\ viewport' = r.viewport
                     /\ deferred' = RebuiltDeferred(r, deferred)
                     /\ recreate_swapchain' = FALSE
                     /\ trace' = Append(trace, "recreate:Ok")
                     /\ pc' = "acquire"
            \/ \* Err(e) => panic!
               /\ pc' = "aborted"
               /\ trace' = Append(trace, "recreate:Err")
               /\ UNCHANGED <<swapchain, deferred, viewport, recreate_swapchain>>
    /\ UNCHANGED <<previous_frame_end, images, winSize, image_num, wait_for_last_frame,
                   command_buffer, flushResult, frames, faults>>
    /\ UNCHANGED <<shadow_map, meshVars, cameraVars, lightVars>>

handle_recreate_swapchain ==
    /\ pc = "recreate"
    /\ IF ~recreate_swapchain
       THEN /\ pc' = "acquire"
            /\ trace' = trace
            /\ UNCHANGED <<swapchain, deferred, viewport, recreate_swapchain>>
       ELSE IF ~Supported(winSize)
       THEN \* Err(ImageExtentNotSupported) => return: nothing is assigned, and
            \* the RedrawEventsCleared callback ends here (main.rs, the same match)
            /\ pc' = "idle"
            /\ trace' = Append(trace, "recreate:ImageExtentNotSupported")
            /\ UNCHANGED <<swapchain, deferred, viewport, recreate_swapchain>>
       ELSE \/ \E n \in ImageCounts :
                 LET new_swapchain == SwapchainRecreate(swapchain, winSize, n)
                     new_images == SwapchainImages(new_swapchain)
                     r == window_size_dependent_setup(new_images)
                 IN  /\ swapchain' = new_swapchain
                     /\ viewport' = r.viewport
                     /\ deferred' = RebuiltDeferred(r, deferred)
                     /\ recreate_swapchain' = FALSE
                     /\ trace' = Append(trace, "recreate:Ok")
                     /\ pc' = "acquire"
            \/ \* Err(e) => panic!
               /\ pc' = "aborted"
               /\ trace' = Append(trace, "recreate:Err")
               /\ UNCHANGED <<swapchain, deferred, viewport, recreate_swapchain>>
    /\ UNCHANGED <<previous_frame_end, images, winSize, image_num, wait_for_last_frame,
                   command_buffer, flushResult, frames, faults>>
    /\ UNCHANGED <<shadow_map, meshVars, cameraVars, lightVars>>

acquire_image_StaleKeepsFlag ==
    /\ pc = "acquire"
    /\ Cardinality(InFlight) < MaxInFlight
    /\ \/ \* Ok((image_num, suboptimal, acquire_future))
          \E n \in 0..(swapchain.count - 1), suboptimal \in BOOLEAN :
             /\ suboptimal => faults < MaxFaults
             /\ image_num' = n
             /\ recreate_swapchain' = (IF suboptimal THEN TRUE ELSE recreate_swapchain)
             /\ faults' = (IF suboptimal THEN faults + 1 ELSE faults)
             /\ trace' = Append(trace, "acquire:Ok")
             /\ pc' = "record"
       \/ \* Err(AcquireError::OutOfDate)
          /\ faults < MaxFaults
          /\ faults' = faults + 1
          /\ recreate_swapchain' = recreate_swapchain
          /\ trace' = Append(trace, "acquire:OutOfDate")
          /\ pc' = "idle"
          /\ UNCHANGED image_num
       \/ \* Err(e) => panic!
          /\ pc' = "aborted"
          /\ trace' = Append(trace, "acquire:Err")
          /\ UNCHANGED <<image_num, recreate_swapchain, faults>>
    /\ UNCHANGED <<previous_frame_end, swapchain, images, viewport, deferred, winSize,
                   wait_for_last_frame, command_buffer, flushResult, frames>>
    /\ UNCHANGED <<shadow_map, meshVars, cameraVars, lightVars>>

acquire_image ==
    /\ pc = "acquire"
    /\ Cardinality(InFlight) < MaxInFlight
    /\ \/ \* Ok((image_num, suboptimal, acquire_future))
          \E n \in 0..(swapchain.count - 1), suboptimal \in BOOLEAN :
             /\ suboptimal => faults < MaxFaults
             /\ image_num' = n
             /\ recreate_swapchain' = (IF suboptimal THEN TRUE ELSE recreate_swapchain)
             /\ faults' = (IF suboptimal THEN faults + 1 ELSE faults)
             /\ trace' = Append(trace, "acquire:Ok")
             /\ pc' = "record"
       \/ \* Err(AcquireError::OutOfDate)
          /\ faults < MaxFaults
          /\ faults' = faults + 1
          /\ recreate_swapchain' = TRUE
          /\ trace' = Append(trace, "acquire:OutOfDate")
          /\ pc' = "idle"
          /\ UNCHANGED image_num
       \/ \* Err(e) => panic!
          /\ pc' = "aborted"
          /\ trace' = Append(trace, "acquire:Err")
          /\ UNCHANGED <<image_num, recreate_swapchain, faults>>
    /\ UNCHANGED <<previous_frame_end, swapchain, images, viewport, deferred, winSize,
                   wait_for_last_frame, command_buffer, flushResult, frames>>
    /\ UNCHANGED <<shadow_map, meshVars, cameraVars, lightVars>>

\* --------------------------------------------------------------- recording
\* System::start_builder: a primary one-time-submit builder with nothing recorded
start_builder == <<>>

\* egui_painter.update_textures(textures_delta, builder): uploads recorded
\* ahead of the render pass when the atlas changed
update_textures_egui(b, changed) ==
    IF changed THEN b \o <<Cmd("update_textures", "Changed")>> ELSE b

\* TriangleDrawSystem::new: the six vertices of the full-screen quad
TriangleDrawSystem == [vertex_buffer |-> CpuAccessibleBuffer("Vertex2D", 0, 6)]

\* get_layouts: the two descriptor sets built for a frame
get_layouts(self, shadow_map_render_pass, uniform_buffer_subbuffer) ==
    [deferred_set |->
        [obj |-> "PersistentDescriptorSet",
         layout |-> <<self.deferred_pipeline, 0>>,
         writes |-> <<[binding |-> 0, resource |-> uniform_buffer_subbuffer]>>],
     lighting_set |->
        [obj |-> "PersistentDescriptorSet",
         layout |-> <<self.lighting_pipeline, 0>>,
         writes |-> <<[binding |-> 0, resource |-> self.color_buffer],
                      [binding |-> 1, resource |-> self.normal_buffer],
                      [binding |-> 2, resource |-> self.position_buffer],
                      [binding |-> 3,
                       resource |-> shadow_map_render_pass.shadow_map_buffer],
                      [binding |-> 10,
                       resource |-> get_lighting_uniform_buffer(self.params)]>>]]

prepare_deferred_pass(self, b, vp, img) ==
    b \o <<Cmd("begin_render_pass", self.framebuffers[img + 1]),
           Cmd("set_viewport", vp),
           Cmd("bind_pipeline_graphics", self.deferred_pipeline)>>

prepare_lighting_subpass_NoAdvance(self, b, lighting_set, triangle_system) ==
    b \o <<Cmd("bind_pipeline_graphics", self.lighting_pipeline),
           Cmd("bind_descriptor_sets",
               [layout |-> self.lighting_pipeline, first_set |-> 0,
                sets |-> <<lighting_set>>]),
           Cmd("bind_vertex_buffers",
               [first_binding |-> 0, buffers |-> <<triangle_system.vertex_buffer>>]),
           Cmd("draw", <<6, 1, 0, 0>>)>>

prepare_lighting_subpass(self, b, lighting_set, triangle_system) ==
    b \o <<Cmd("next_subpass", "Inline"),
           Cmd("bind_pipeline_graphics", self.lighting_pipeline),
           Cmd("bind_descriptor_sets",
               [layout |-> self.lighting_pipeline, first_set |-> 0,
                sets |-> <<lighting_set>>]),
           Cmd("bind_vertex_buffers",
               [first_binding |-> 0, buffers |-> <<triangle_system.vertex_buffer>>]),
           Cmd("draw", <<6, 1, 0, 0>>)>>

\* the subpass the egui painter is created for (get_egui_context)
EguiSubpass == 2

\* render_egui: the painter draws the shapes with its own pipeline
render_egui(b) == b \o <<Cmd("egui_painter.draw", [subpass |-> EguiSubpass])>>

\* the advance from the lighting subpass to the UI overlay subpass
next_subpass_ui(b) == b \o <<Cmd("next_subpass", "Inline")>>

end_render_pass(b) == b \o <<Cmd("end_render_pass", "")>>

\* the commands of one frame, in the order of the per-frame control flow
RecordFrame_DrawAfterLighting(self, sm, m, vp, img, changed) ==
    LET sets == get_layouts(self, sm, Arc("uniform_buffer_subbuffer", 0))
        b0 == update_textures_egui(start_builder, changed)
        b1 == prepare_deferred_pass(self, b0, vp, img)
        b2 == prepare_lighting_subpass(self, b1, sets.lighting_set, TriangleDrawSystem)
        b3 == Mesh_render(m, b2, self.deferred_pipeline, sets.deferred_set)
    IN  end_render_pass(render_egui(next_subpass_ui(b3)))

RecordFrame(self, sm, m, vp, img, changed) ==
    LET sets == get_layouts(self, sm, Arc("uniform_buffer_subbuffer", 0))
        b0 == update_textures_egui(start_builder, changed)
        b1 == prepare_deferred_pass(self, b0, vp, img)
        b2 == Mesh_render(m, b1, self.deferred_pipeline, sets.deferred_set)
        b3 == prepare_lighting_subpass(self, b2, sets.lighting_set, TriangleDrawSystem)
    IN  end_render_pass(render_egui(next_subpass_ui(b3)))

\* start_builder, update_textures_egui, prepare_deferred_pass .. build()
record_commands ==
    /\ pc = "record"
    /\ \E changed \in BOOLEAN :
          /\ wait_for_last_frame' = changed
          /\ command_buffer' =
                [framebuffer |-> deferred.framebuffers[image_num + 1],
                 viewport |-> viewport,
                 commands |-> RecordFrame(deferred, shadow_map, mesh.value, viewport,
                                          image_num, changed)]
    /\ trace' = Append(trace, "record")
    /\ pc' = "finish_wait"
    /\ UNCHANGED <<previous_frame_end, recreate_swapchain, swapchain, images, viewport,
                   deferred, winSize, image_num, flushResult, frames, faults>>
    /\ UNCHANGED <<shadow_map, meshVars, cameraVars, lightVars>>

\* finish_frame, first statement: the optional f.wait(None).unwrap()
MustWait_Never == FALSE

MustWait_IgnoresFlag == previous_frame_end = FenceSignalFuture

MustWait == wait_for_last_frame /\ previous_frame_end = FenceSignalFuture

finish_frame_wait ==
    /\ pc = "finish_wait"
    /\ IF MustWait
       THEN \/ /\ FenceSignalled
               /\ trace' = Append(trace, "wait")
               /\ pc' = "finish_submit"
            \/ \* wait(None) returned Err: unwrap panics
               /\ trace' = Append(trace, "wait:Err")
               /\ pc' = "aborted"
       ELSE /\ trace' = trace
            /\ pc' = "finish_submit"
    /\ UNCHANGED <<previous_frame_end, recreate_swapchain, swapchain, images, viewport,
                   deferred, winSize, image_num, wait_for_last_frame, command_buffer,
                   flushResult, frames, faults>>
    /\ UNCHANGED <<shadow_map, meshVars, cameraVars, lightVars>>

\* the future chain built from the value taken out of previous_frame_end
FutureChain == <<"take", "join", "then_execute", "then_swapchain_present",
                 "then_signal_fence_and_flush">>

finish_frame_submit ==
    /\ pc = "finish_submit"
    /\ previous_frame_end # None
    /\ previous_frame_end' = None
    /\ \/ \* Ok(future)
          /\ frames' = Append(frames, SubmittedFrame(command_buffer))
          /\ flushResult' = "Ok"
          /\ trace' = trace \o FutureChain
          /\ pc' = "finish_store"
          /\ UNCHANGED faults
       \/ \* Err(FlushError::OutOfDate), Err(e)
          \E e \in {"OutOfDate", "Other"} :
             /\ faults < MaxFaults
             /\ faults' = faults + 1
             /\ frames' = DropFuture(frames)
             /\ flushResult' = e
             /\ trace' = trace \o FutureChain
             /\ pc' = "finish_store"
       \/ \* then_execute returned Err: unwrap panics
          /\ frames' = DropFuture(frames)
          /\ trace' = trace \o SubSeq(FutureChain, 1, 3)
          /\ pc' = "aborted"
          /\ UNCHANGED <<flushResult, faults>>
    /\ UNCHANGED <<recreate_swapchain, swapchain, images, viewport, deferred, winSize,
                   image_num, wait_for_last_frame, command_buffer>>
    /\ UNCHANGED <<shadow_map, meshVars, cameraVars, lightVars>>

\* finish_frame, the match on the flush result
FinishStoreFuture_ErrLeavesNone(result) ==
    IF result = "Ok" THEN FenceSignalFuture
    ELSE IF result = "OutOfDate" THEN FrameEndFuture_now ELSE None

FinishStoreFuture(result) ==
    IF result = "Ok" THEN FenceSignalFuture ELSE FrameEndFuture_now

FinishStoreRecreate_NeverSets(result, old) == old

FinishStoreRecreate_ClearsOnOk(result, old) ==
    IF result = "OutOfDate" THEN TRUE ELSE IF result = "Ok" THEN FALSE ELSE old

FinishStoreRecreate_AnyError(result, old) ==
    IF result # "Ok" THEN TRUE ELSE old

FinishStoreRecreate(result, old) ==
    IF result = "OutOfDate" THEN TRUE ELSE old

finish_frame_store ==
    /\ pc = "finish_store"
    /\ previous_frame_end' = FinishStoreFuture(flushResult)
    /\ recreate_swapchain' = FinishStoreRecreate(flushResult, recreate_swapchain)
    /\ trace' = Append(trace, "store:" \o flushResult)
    /\ pc' = "idle"
    \* the callback returns: its locals go out of scope
    /\ image_num' = 0
    /\ wait_for_last_frame' = FALSE
    /\ command_buffer' = NoCommandBuffer
    /\ flushResult' = "none"
    /\ UNCHANGED <<swapchain, images, viewport, deferred, winSize, frames, faults>>
    /\ UNCHANGED <<shadow_map, meshVars, cameraVars, lightVars>>

\* the GPU finishes the oldest unfinished frame and signals its fence
RECURSIVE CompleteFirst(_)
CompleteFirst(s) ==
    IF s = <<>> THEN <<>>
    ELSE IF ~Head(s).done THEN <<[Head(s) EXCEPT !.done = TRUE]>> \o Tail(s)
    ELSE <<Head(s)>> \o CompleteFirst(Tail(s))

GpuComplete ==
    /\ InFlight # {}
    /\ frames' = SelectFrames(CompleteFirst(frames), TRUE)
    /\ UNCHANGED <<pc, previous_frame_end, recreate_swapchain, swapchain, images,
                   viewport, deferred, winSize, image_num, wait_for_last_frame,
                   command_buffer, flushResult, faults, trace>>
    /\ UNCHANGED <<shadow_map, meshVars, cameraVars, lightVars>>

Next ==
    \/ init_render_pass
    \/ shadow_map_init_render_pass
    \/ Resized
    \/ cleanup_finished
    \/ handle_recreate_swapchain
    \/ acquire_image
    \/ record_commands
    \/ finish_frame_wait
    \/ finish_frame_submit
    \/ finish_frame_store
    \/ GpuComplete

Spec == Init /\ [][Next]_vars

TypeOK ==
    /\ pc \in {"init", "idle", "recreate", "acquire", "record", "finish_wait",
               "finish_submit", "finish_store", "aborted"}
    /\ previous_frame_end \in {None, FrameEndFuture_now, FenceSignalFuture}
    /\ recreate_swapchain \in BOOLEAN
    /\ winSize \in WinSizes
    /\ faults \in 0..MaxFaults

\* ------------------------------------------------------- loading and drawing
\* a scene file has been read; nothing is loaded from it yet
MeshInit ==
    /\ FrameInit
    /\ swapchain.count = 2
    /\ scene \in Scenes
    /\ files \in {AllFiles, AllFiles \ {DefaultTexturePath}}
    /\ mesh = NotLoaded
    /\ builder = <<>>
    /\ shadow_depth = "Unwritten"
    /\ camera = construct_camera
    /\ uniform_data = NoUniformData
    /\ last_call = Call("construct_camera", "", NoEvent)
    /\ events = 0
    /\ lighting_uniform = NoLightingData
    /\ fragment = NoFragment

\* let mesh = load_gltf(..): a panic ends the program before a Mesh exists
LoadGltf ==
    /\ mesh = NotLoaded
    /\ mesh' = load_gltf(scene)
    /\ UNCHANGED <<frameVars, scene, files, builder, shadow_depth, cameraVars, lightVars>>

\* mesh.render(&mut builder, &pipeline, &general_set) on a fresh builder
MeshRender ==
    /\ mesh.ok
    /\ builder = <<>>
    /\ \E general_set \in {Arc("deferred_set", 0), Arc("deferred_set", 1)} :
          builder' = Mesh_render(mesh.value, <<Cmd("start_builder", general_set)>>,
                                 Arc("deferred_pipeline", 0), general_set)
    /\ UNCHANGED <<frameVars, scene, files, mesh, shadow_depth, cameraVars, lightVars>>

MeshNext ==
    \/ LoadGltf
    \/ MeshRender

MeshSpec == MeshInit /\ [][MeshNext]_vars

\* ------------------------------------------------------------- the camera
\* a camera has been constructed; the swapchain is the initial one
\* ShadowMapRenderPass::prepare_shadow_map_pass
prepare_shadow_map_pass(self, b, vp) ==
    b \o <<Cmd("begin_render_pass", self.framebuffer),
           Cmd("set_viewport", vp),
           Cmd("bind_pipeline_graphics", self.pipeline)>>

\* the shadow pass of a frame: the pass is begun, the geometry of the mesh is
\* drawn with the shadow pipeline, and the pass is ended
render_shadow_map(self, m, b, vp) ==
    end_render_pass(Mesh_render(m, prepare_shadow_map_pass(self, b, vp),
                                self.pipeline, Arc("shadow_map_set", 0)))

\* what an attachment holds once its render pass has ended: the values the
\* pass wrote when the store op is Store; with DontCare the contents are
\* undefined, so either the written values or anything else
ContentsAfterPass(attachment) ==
    IF attachment.store = "Store" THEN {"Written"} ELSE {"Written", "Undefined"}

\* scenes of untextured submeshes, as many and as large as the bounds allow
ShadowScenes ==
    {sc \in Scenes : Len(sc.materials) = 1 /\ sc.materials[1].base_color = None}

ShadowInit ==
    /\ MeshInit
    /\ scene \in ShadowScenes

\* the commands of a frame that renders the shadow map first
RecordShadowFrame ==
    /\ pc = "idle"
    /\ mesh.ok
    /\ builder = <<>>
    /\ \E changed \in BOOLEAN :
          builder' = render_shadow_map(shadow_map, mesh.value, start_builder,
                                       viewport)
                        \o RecordFrame(deferred, shadow_map, mesh.value, viewport, 0,
                                       changed)
    /\ UNCHANGED <<frameVars, scene, files, mesh, shadow_depth, cameraVars, lightVars>>

\* the GPU runs the shadow render pass of the submitted commands
ExecuteShadowPass ==
    /\ builder # <<>>
    /\ shadow_depth = "Unwritten"
    /\ \E c \in ContentsAfterPass(shadow_map.render_pass.attachments.depth) :
          shadow_depth' = c
    /\ UNCHANGED <<frameVars, scene, files, mesh, builder, cameraVars, lightVars>>

ShadowNext ==
    \/ init_render_pass
    \/ shadow_map_init_render_pass
    \/ LoadGltf
    \/ RecordShadowFrame
    \/ ExecuteShadowPass

ShadowSpec == ShadowInit /\ [][ShadowNext]_vars

\* the variants of DebugPreviewBuffer offered by the Preview combo box
DebugPreviewBuffers == {"FinalOutput", "Albedo", "Normal", "Position"}

\* colours the two colour pickers can be left at
PickedColors == {get_default_params.ambient_color, <<"0.5", "0.25", "0.0", "1.0">>}

\* what the geometry pass left in the three input attachments at one texel
GBufferTexels ==
    [albedo : {<<1, 0, 0, 1>>, <<0, 1, 0, 1>>},
     normal : {<<0, 0, 1, 0>>, <<0, 1, 0, 0>>},
     position : {<<2, 3, 4, 1>>, <<5, 6, 7, 1>>}]

\* update_textures_egui: the Monitoring window edits the RendererParams
UpdateParamsEgui ==
    /\ pc = "idle"
    /\ \E ambient \in PickedColors, directional \in PickedColors,
          preview \in DebugPreviewBuffers :
          deferred' = [deferred EXCEPT !.params =
                          [@ EXCEPT !.ambient_color = ambient,
                                    !.directional_color = directional,
                                    !.preview_buffer = preview]]
    /\ UNCHANGED <<pc, previous_frame_end, recreate_swapchain, swapchain, images,
                   viewport, winSize, image_num, wait_for_last_frame, command_buffer,
                   flushResult, frames, faults, trace, shadow_map>>
    /\ UNCHANGED <<meshVars, cameraVars, lightVars>>

\* get_layouts builds the lighting set of a frame and the lighting draw of
\* prepare_lighting_subpass shades the texels with it
LightingPass ==
    /\ pc = "idle"
    /\ LET sets == get_layouts(deferred, shadow_map, Arc("uniform_buffer_subbuffer", 0))
           u == sets.lighting_set.writes[5].resource
       IN  /\ lighting_uniform' = u
           /\ \E texel \in GBufferTexels :
                 fragment' = [selector |-> deferred.params.preview_buffer,
                              texel |-> texel,
                              out |-> lighting_frag(u, texel)]
    /\ UNCHANGED <<frameVars, meshVars, cameraVars>>

LightingInit ==
    /\ Init
    /\ swapchain.count = 2

LightingNext ==
    \/ init_render_pass
    \/ shadow_map_init_render_pass
    \/ UpdateParamsEgui
    \/ LightingPass

LightingSpec == LightingInit /\ [][LightingNext]_vars

CameraInit ==
    /\ Init
    /\ swapchain.count = 2

\* camera.handle_event(&input); a quarter-turn step that would leave forward
\* parallel to up stands for no real mouse motion and is left out
HandleEvent ==
    /\ events < MaxEvents
    /\ \E input \in Inputs :
          LET c == handle_event(camera, input)
          IN  /\ Cross(c.forward, c.up) # Vec3(0, 0, 0)
              /\ camera' = c
              /\ last_call' = Call("handle_event", "", EventOf(camera, input))
    /\ events' = events + 1
    /\ uniform_data' = NoUniformData
    /\ UNCHANGED <<frameVars, meshVars, lightVars>>

\* camera.update()
Update ==
    /\ last_call.op # "update"
    /\ camera' = update(camera)
    /\ last_call' = Call("update", "", IF last_call.op = "handle_event"
                                       THEN last_call.event ELSE NoEvent)
    /\ uniform_data' = NoUniformData
    /\ UNCHANGED <<frameVars, meshVars, lightVars, events>>

\* camera.get_uniform_buffer(&system, &uniform_buffer, world)
GetUniformBuffer ==
    /\ \E world \in Worlds :
          LET r == get_uniform_buffer(camera, swapchain.extent, world)
          IN  /\ camera' = r.camera
              /\ uniform_data' = r.uniform_data
              /\ last_call' = Call("get_uniform_buffer", world, NoEvent)
    /\ UNCHANGED <<frameVars, meshVars, lightVars, events>>

CameraNext ==
    \/ HandleEvent
    \/ Update
    \/ GetUniformBuffer

CameraSpec == CameraInit /\ [][CameraNext]_vars

\* the callback, one step at a time
FrameLoop ==
    \/ init_render_pass
    \/ shadow_map_init_render_pass
    \/ cleanup_finished
    \/ handle_recreate_swapchain
    \/ acquire_image
    \/ record_commands
    \/ finish_frame_wait
    \/ finish_frame_submit
    \/ finish_frame_store

\* the event loop keeps delivering RedrawEventsCleared and the GPU keeps working
LiveSpec == Spec /\ WF_vars(FrameLoop) /\ WF_vars(GpuComplete)

\* ------------------------------------------------------------------ helpers
Last(s) == s[Len(s)]

InTrace(x) == \E i \in 1..Len(trace) : trace[i] = x

EndedWith(x) == pc = "idle" /\ trace # <<>> /\ Last(trace) = x

OwnedInFlight == {i \in InFlight : frames[i].owned}

\* ---------------------------------------------------------------------- C1
\* C1: at every iteration boundary previous_frame_end is Some: the fence of
\* the frame just submitted after a successful finish_frame, the placeholder
\* after either flush error; cleanup_finished never finds it empty.
C1_FrameEndIsSome ==
    /\ pc \in {"init", "idle"} => previous_frame_end # None
    /\ EndedWith("store:Ok") =>
          /\ previous_frame_end = FenceSignalFuture
          /\ frames # <<>> => Last(frames).owned
    /\ EndedWith("store:OutOfDate") => previous_frame_end = FrameEndFuture_now
    /\ EndedWith("store:Other") => previous_frame_end = FrameEndFuture_now
    /\ ~(pc = "aborted" /\ trace = <<"cleanup_finished">>)

C1_Witness ==
    /\ EndedWith("store:Ok")
    /\ previous_frame_end = FenceSignalFuture
    /\ ~FenceSignalled

\* ---------------------------------------------------------------------- C2
\* C2 (as claimed): the number of submitted frames whose fence has not
\* signalled never exceeds one.
C2_Original == Cardinality(InFlight) <= 1

\* C2 (amended): right after a finish_frame called with wait_for_last_frame =
\* true, at most one frame tracked by the future chain is in flight, the one
\* just submitted.
C2_OneInFlightAfterWait ==
    (pc = "finish_store" /\ wait_for_last_frame) => Cardinality(OwnedInFlight) <= 1

C2_Witness ==
    /\ pc = "finish_store"
    /\ wait_for_last_frame
    /\ InTrace("wait")
    /\ flushResult = "Ok"
    /\ Cardinality(OwnedInFlight) = 1

\* ---------------------------------------------------------------------- C3
\* a successful rebuild inside handle_recreate_swapchain
RebuildStep == pc = "recreate" /\ pc' = "acquire" /\ swapchain' # swapchain

C4_WaitThenSubmit ==
    /\ (pc = "finish_submit" /\ wait_for_last_frame
           /\ previous_frame_end = FenceSignalFuture) =>
          (FenceSignalled /\ Last(trace) = "wait")
    /\ (pc = "finish_submit"
           /\ ~(wait_for_last_frame /\ previous_frame_end = FenceSignalFuture)) =>
          ~InTrace("wait")
    /\ pc = "finish_store" =>
          /\ SubSeq(trace, Len(trace) - 4, Len(trace)) =
                <<"take", "join", "then_execute", "then_swapchain_present",
                  "then_signal_fence_and_flush">>
          /\ trace[Len(trace) - 5] \in {"wait", "record"}
          /\ \A i \in 1..Len(trace) : trace[i] = "wait" => i = Len(trace) - 5

C4_Witness ==
    /\ pc = "finish_submit"
    /\ wait_for_last_frame
    /\ previous_frame_end = FenceSignalFuture
    /\ Last(trace) = "wait"
    /\ FenceSignalled

\* ---------------------------------------------------------------------- C5
\* C5: a stale acquisition sets recreate_swapchain, ends the iteration with
\* nothing recorded, submitted or presented and previous_frame_end untouched;
\* any other acquisition error aborts and the process never runs again.
C5_StaleAcquireSkips ==
    /\ [](EndedWith("acquire:OutOfDate") =>
            /\ recreate_swapchain
            /\ ~InTrace("record") /\ ~InTrace("take")
            /\ ~InTrace("then_execute") /\ ~InTrace("then_swapchain_present")
            /\ command_buffer = NoCommandBuffer)
    /\ [][(pc = "acquire" /\ pc' = "idle") =>
             /\ previous_frame_end' = previous_frame_end
             /\ frames' = frames
             /\ Last(trace') = "acquire:OutOfDate"]_vars
    /\ [][(pc = "acquire" /\ Last(trace') = "acquire:Err") => pc' = "aborted"]_vars
    /\ [][pc = "aborted" => pc' = "aborted"]_vars

C5_Witness ==
    /\ EndedWith("acquire:OutOfDate")
    /\ recreate_swapchain
    /\ previous_frame_end = FenceSignalFuture

\* ---------------------------------------------------------------------- C6
\* C6: after a flush that failed with OutOfDate, recreate_swapchain is true,
\* previous_frame_end is the placeholder and no frame is tracked by it.
C6_StalePresentResets ==
    EndedWith("store:OutOfDate") =>
        /\ recreate_swapchain
        /\ previous_frame_end = FrameEndFuture_now
        /\ \A i \in 1..Len(frames) : ~frames[i].owned

C6_Witness ==
    /\ EndedWith("store:OutOfDate")
    /\ previous_frame_end = FrameEndFuture_now
    /\ recreate_swapchain
    /\ faults = 1

\* ---------------------------------------------------------------------- C7
\* C7 (as claimed): no failing step of finish_frame aborts the process, the
\* wait on the previous fence and the command-buffer execution included.
C7_Original ==
    ~(pc = "aborted" /\ trace # <<>> /\ Last(trace) \in {"wait:Err", "then_execute"})

\* C7 (amended): a failure other than OutOfDate reported by
\* then_signal_fence_and_flush is recoverable: previous_frame_end becomes the
\* placeholder, recreate_swapchain keeps its value, the callback returns and
\* the next iteration starts normally.
C7_FlushErrorRecoverable ==
    /\ [](EndedWith("store:Other") => previous_frame_end = FrameEndFuture_now)
    /\ [][(pc = "finish_store" /\ flushResult = "Other" /\ pc' # pc) =>
             /\ pc' = "idle"
             /\ recreate_swapchain' = recreate_swapchain
             /\ previous_frame_end' = FrameEndFuture_now]_vars
    /\ [][(EndedWith("store:Other") /\ pc' # pc) => pc' = "recreate"]_vars

C7_Witness ==
    /\ EndedWith("store:Other")
    /\ ~recreate_swapchain
    /\ previous_frame_end = FrameEndFuture_now

\* ---------------------------------------------------------------------- C8
\* C8: an unsupported extent at swapchain recreation ends the iteration
\* without aborting: swapchain, framebuffers, attachments and viewport are
\* unchanged, recreate_swapchain stays true, and nothing is acquired,
\* recorded or presented in that iteration.
C8_UnsupportedExtentSkips ==
    /\ [](EndedWith("recreate:ImageExtentNotSupported") =>
            /\ recreate_swapchain
            /\ trace = <<"cleanup_finished", "recreate:ImageExtentNotSupported">>)
    /\ [][(pc = "recreate" /\ ~Supported(winSize) /\ recreate_swapchain /\ pc' # pc) =>
             /\ pc' = "idle"
             /\ UNCHANGED <<swapchain, images, deferred, viewport, recreate_swapchain,
                            previous_frame_end, frames>>]_vars

C8_Witness ==
    /\ EndedWith("recreate:ImageExtentNotSupported")
    /\ winSize = <<0, 0>>
    /\ recreate_swapchain

\* --------------------------------------------------------------------- C10
\* C10: after every rebuild the albedo, normal, position and depth
\* attachments have the same dimensions, those of the swapchain images the
\* framebuffers were built from, which are the swapchain's non-zero extent.
C10_AttachmentsMatchExtent ==
    \A i \in 1..Len(deferred.framebuffers) :
        LET fb == deferred.framebuffers[i]
        IN  /\ fb.albedo.dims = fb.view.dims
            /\ fb.normal.dims = fb.view.dims
            /\ fb.position.dims = fb.view.dims
            /\ fb.depth.dims = fb.view.dims
            /\ fb.view.dims = swapchain.extent
            /\ Supported(fb.view.dims)
            /\ deferred.color_buffer.dims = fb.view.dims
            /\ deferred.normal_buffer.dims = fb.view.dims
            /\ deferred.position_buffer.dims = fb.view.dims

C10_Witness ==
    /\ pc = "acquire"
    /\ Last(trace) = "recreate:Ok"
    /\ deferred.color_buffer.dims = <<800, 600>>
    /\ Len(deferred.framebuffers) = swapchain.count

\* ---------------------------------------------------------------------- C9
\* a frame was submitted and presented through framebuffers and attachments
\* of the window's current extent
PresentedAtWindowExtent ==
    /\ pc = "finish_store"
    /\ flushResult = "Ok"
    /\ command_buffer.framebuffer.view.dims = winSize
    /\ command_buffer.framebuffer.albedo.dims = winSize
    /\ command_buffer.framebuffer.normal.dims = winSize
    /\ command_buffer.framebuffer.position.dims = winSize
    /\ command_buffer.framebuffer.depth.dims = winSize

\* C9: after an iteration skipped for an unsupported extent, once the window
\* has a supported extent the rebuild clears recreate_swapchain and builds
\* swapchain, framebuffers and attachments of the window's extent, and
\* (unless the window is minimised again or the process aborts on a fatal
\* error) a frame is eventually presented through them.
C9_ResumesAfterSkip ==
    /\ (EndedWith("recreate:ImageExtentNotSupported") /\ Supported(winSize))
          ~> (pc = "aborted" \/ ~Supported(winSize) \/ PresentedAtWindowExtent)
    /\ [][RebuildStep =>
             /\ ~recreate_swapchain'
             /\ swapchain'.extent = winSize
             /\ \A i \in 1..Len(deferred'.framebuffers) :
                   deferred'.framebuffers[i].view.dims = winSize]_vars

C9_Witness ==
    /\ EndedWith("recreate:ImageExtentNotSupported")
    /\ Supported(winSize)
    /\ recreate_swapchain
    /\ swapchain.extent # winSize

\* ---------------------------------------------------------------------- C11
\* C11: once the G-buffer set has been built (at start-up and after every
\* rebuild) there is one framebuffer per image of the current swapchain,
\* framebuffer i has the view of swapchain image i as attachment 0, all
\* framebuffers share one albedo, normal, position and depth attachment, and
\* the index returned by acquire_image is a valid framebuffer index.
C11_FramebufferPerImage ==
    pc # "init" =>
        /\ Len(deferred.framebuffers) = swapchain.count
        /\ \A i \in 1..Len(deferred.framebuffers) :
              /\ deferred.framebuffers[i].view = SwapchainImages(swapchain)[i]
              /\ deferred.framebuffers[i].albedo = deferred.color_buffer
              /\ deferred.framebuffers[i].normal = deferred.normal_buffer
              /\ deferred.framebuffers[i].position = deferred.position_buffer
              /\ deferred.framebuffers[i].depth = deferred.framebuffers[1].depth
        /\ \A n \in 0..(swapchain.count - 1) : (n + 1) \in DOMAIN deferred.framebuffers
        /\ pc = "record" => (image_num + 1) \in DOMAIN deferred.framebuffers

\* a rebuild produced more images than System.images holds, and the last of
\* them has been acquired
C11_Witness ==
    /\ pc = "record"
    /\ InTrace("recreate:Ok")
    /\ swapchain.count > Len(images)
    /\ image_num = swapchain.count - 1

\* ---------------------------------------------------------------------- C12
\* handle_recreate_swapchain has run to its end: the callback goes on to acquire
RecreateStep == pc = "recreate" /\ pc' = "acquire"

\* C12: a handle_recreate_swapchain that succeeds stores a new swapchain, new
\* framebuffers, new albedo, normal and position views and the new viewport
\* dimensions and clears recreate_swapchain; the render pass, the two
\* pipelines, the renderer params, the whole shadow-map pass and everything
\* else stay as they were.  With recreate_swapchain false nothing changes.
C12_RecreateEffect ==
    [][RecreateStep =>
         IF recreate_swapchain
         THEN /\ swapchain' # swapchain
              /\ swapchain'.extent = winSize
              /\ deferred'.framebuffers # deferred.framebuffers
              /\ deferred'.color_buffer # deferred.color_buffer
              /\ deferred'.normal_buffer # deferred.normal_buffer
              /\ deferred'.position_buffer # deferred.position_buffer
              /\ viewport' = swapchain'.extent
              /\ recreate_swapchain' = FALSE
              /\ deferred'.render_pass = deferred.render_pass
              /\ deferred'.deferred_pipeline = deferred.deferred_pipeline
              /\ deferred'.lighting_pipeline = deferred.lighting_pipeline
              /\ deferred'.params = deferred.params
              /\ UNCHANGED <<shadow_map, images, previous_frame_end, winSize, frames,
                             image_num, wait_for_last_frame, command_buffer,
                             flushResult>>
         ELSE UNCHANGED <<swapchain, deferred, viewport, recreate_swapchain,
                          shadow_map, images, previous_frame_end, winSize, frames,
                          image_num, wait_for_last_frame, command_buffer,
                          flushResult>>]_vars

\* a rebuild for a resized window has succeeded, next to objects that were
\* created at start-up
C12_Witness ==
    /\ pc = "acquire"
    /\ InTrace("recreate:Ok")
    /\ swapchain.gen > 1
    /\ viewport = <<800, 600>>
    /\ deferred.render_pass = Arc("RenderPass", 0)
    /\ shadow_map.pipeline = Arc("shadow_map_pipeline", 0)

\* ---------------------------------------------------------------------- C13
\* the commands that begin, advance or end a render pass, in recorded order
SubpassOps(cmds) ==
    SelectSeq(cmds, LAMBDA c : c.op \in {"begin_render_pass", "next_subpass",
                                         "end_render_pass"})

\* the number of next_subpass commands among the first k commands
SubpassAt(cmds, k) == Cardinality({j \in 1..k : cmds[j].op = "next_subpass"})

\* the position of the first command with the given op (0 when there is none)
FirstOp(cmds, op) ==
    IF \E j \in 1..Len(cmds) : cmds[j].op = op
    THEN CHOOSE j \in 1..Len(cmds) :
            cmds[j].op = op /\ \A i \in 1..(j - 1) : cmds[i].op # op
    ELSE 0

Recorded == command_buffer # NoCommandBuffer

\* C13: every recorded frame begins the deferred render pass once, on the
\* framebuffer of the acquired image, with the viewport set and the geometry
\* pipeline bound; it then advances to the lighting subpass, advances to the
\* UI subpass and ends the render pass, each once and in this order; the
\* lighting quad is drawn in subpass 1 and the UI in subpass 2.
C13_SubpassOrder ==
    Recorded =>
        LET cmds == command_buffer.commands
            ops == SubpassOps(cmds)
            begin == FirstOp(cmds, "begin_render_pass")
        IN  /\ [i \in 1..Len(ops) |-> ops[i].op] =
                  <<"begin_render_pass", "next_subpass", "next_subpass", "end_render_pass">>
            /\ cmds[begin].arg = deferred.framebuffers[image_num + 1]
            /\ cmds[begin + 1].op = "set_viewport"
            /\ cmds[begin + 2] = Cmd("bind_pipeline_graphics", deferred.deferred_pipeline)
            /\ cmds[Len(cmds)].op = "end_render_pass"
            /\ \A k \in 1..Len(cmds) :
                  /\ cmds[k].op = "draw" =>
                        /\ SubpassAt(cmds, k) = 1
                        /\ cmds[k - 3] =
                              Cmd("bind_pipeline_graphics", deferred.lighting_pipeline)
                  /\ cmds[k].op = "egui_painter.draw" =>
                        SubpassAt(cmds, k) = cmds[k].arg.subpass

\* a frame has been recorded while an earlier one is still on the queue
C13_Witness ==
    /\ Recorded
    /\ pc = "finish_wait"
    /\ frames # <<>>
    /\ wait_for_last_frame

\* ---------------------------------------------------------------------- C14
\* C14: in a recorded frame exactly one command advances from the geometry
\* subpass to the lighting subpass, every draw of Mesh::render lies between
\* the begin of the render pass and that command, and the frame draws every
\* MeshBuffer of the mesh.
C14_NoGeometryAfterLighting ==
    Recorded =>
        LET cmds == command_buffer.commands
            begin == FirstOp(cmds, "begin_render_pass")
            toLighting == {k \in 1..Len(cmds) :
                             cmds[k].op = "next_subpass" /\ SubpassAt(cmds, k) = 1}
            draws == {k \in 1..Len(cmds) : cmds[k].op = "draw_indexed"}
        IN  /\ Cardinality(toLighting) = 1
            /\ Cardinality(draws) = Len(mesh.value.mesh_buffers)
            /\ \A k \in draws : \A t \in toLighting : begin < k /\ k < t

\* a frame with two geometry draws has been recorded
C14_Witness ==
    /\ Recorded
    /\ Cardinality({k \in 1..Len(command_buffer.commands) :
                       command_buffer.commands[k].op = "draw_indexed"}) = 2
    /\ InTrace("record")

\* ---------------------------------------------------------------------- C15
\* the callback is inside a call that cannot return normally in this state
Blocked == pc # "aborted" /\ ~ENABLED (FrameLoop /\ pc' # "aborted")

\* C15 as stated: the loop can be suspended only in the fence wait of
\* finish_frame, in an iteration whose UI texture atlas changed.
C15_Original ==
    Blocked => pc = "finish_wait" /\ wait_for_last_frame

\* C15: the loop can be suspended at two places only: in the fence wait of
\* finish_frame, which is entered only when the UI texture atlas changed and
\* lasts until the fence of the stored future signals, and in
\* acquire_next_image, which has no timeout and lasts until an image is free.
C15_BlocksOnlyInWaitOrAcquire ==
    /\ Blocked =>
          \/ /\ pc = "finish_wait"
             /\ wait_for_last_frame
             /\ previous_frame_end = FenceSignalFuture
             /\ ~FenceSignalled
          \/ /\ pc = "acquire"
             /\ Cardinality(InFlight) >= MaxInFlight
    /\ pc \in {"init", "idle", "recreate", "record", "finish_submit", "finish_store"}
          => ~Blocked

\* the loop is suspended in acquire_next_image, with no atlas change involved
C15_Witness ==
    /\ Blocked
    /\ pc = "acquire"
    /\ ~wait_for_last_frame
    /\ InTrace("cleanup_finished")

\* ---------------------------------------------------------------------- C16
\* Mesh::render has recorded into the builder
Rendered == builder # <<>>

\* C16: after Mesh::render the builder holds, for the i-th MeshBuffer of the
\* mesh and in this order, four commands: descriptor sets 0 and 1 bound to the
\* set passed in and to the MeshBuffer's material set, the position, normal
\* and UV buffers bound from binding 0, the index buffer bound, and one
\* indexed draw over the whole index buffer (one instance, no offsets);
\* nothing else is recorded and the mesh is what load_gltf returned.
C16_RenderDrawsEachBuffer ==
    Rendered =>
        LET general_set == builder[1].arg
            cmds == Tail(builder)
            bufs == mesh.value.mesh_buffers
        IN  /\ Len(cmds) = 4 * Len(bufs)
            /\ Cardinality({k \in 1..Len(cmds) : cmds[k].op = "draw_indexed"}) = Len(bufs)
            /\ \A i \in 1..Len(bufs) :
                  LET at == 4 * (i - 1)
                  IN  /\ cmds[at + 1].op = "bind_descriptor_sets"
                      /\ cmds[at + 1].arg.first_set = 0
                      /\ cmds[at + 1].arg.sets =
                            <<general_set, bufs[i].material.uniform_set.value>>
                      /\ cmds[at + 2] =
                            Cmd("bind_vertex_buffers",
                                [first_binding |-> 0,
                                 buffers |-> <<bufs[i].vertex_buffer, bufs[i].normal_buffer,
                                               bufs[i].tex_coord_buffer>>])
                      /\ cmds[at + 3] = Cmd("bind_index_buffer", bufs[i].index_buffer)
                      /\ cmds[at + 4] =
                            Cmd("draw_indexed", <<bufs[i].index_buffer.len, 1, 0, 0, 0>>)
            /\ mesh = load_gltf(scene)

\* a mesh of two MeshBuffers with index buffers of different lengths and
\* different material sets has been rendered
C16_Witness ==
    /\ Rendered
    /\ Len(mesh.value.mesh_buffers) = 2
    /\ mesh.value.mesh_buffers[1].index_buffer.len
          # mesh.value.mesh_buffers[2].index_buffer.len
    /\ mesh.value.mesh_buffers[1].material.uniform_set.value.image
          # mesh.value.mesh_buffers[2].material.uniform_set.value.image

\* ---------------------------------------------------------------------- C17
\* load_gltf has returned a Mesh
Loaded == mesh.ok

\* the material of the i-th mesh of the scene has no base-colour texture
Untextured(i) == scene.materials[scene.meshes[i].material_index + 1].base_color = None

\* C17: every Material that load_material returns has uniform_set = Some, for
\* every material description; for a material without a base-colour texture
\* the set wraps the texture loaded from the default path; so every
\* MeshBuffer of a loaded mesh has a set and Mesh::render records no panic.
C17_MaterialAlwaysHasSet ==
    /\ \A m \in AssimpMaterials :
          LET r == load_material(m, scene.base_dir, 1)
          IN  r.ok =>
                /\ r.value.uniform_set # None
                /\ r.value.uniform_set.tag = "Some"
                /\ m.base_color = None =>
                      r.value.uniform_set.value.image =
                          [source |-> "file", at |-> DefaultTexturePath]
    /\ Loaded =>
          \A i \in 1..Len(mesh.value.mesh_buffers) :
             LET uniform_set == mesh.value.mesh_buffers[i].material.uniform_set
             IN  /\ uniform_set.tag = "Some"
                 /\ Untextured(i) =>
                       uniform_set.value.image = load_default_texture.value
    /\ Rendered => \A k \in 1..Len(builder) : builder[k].op # "panic"

\* a mesh with a textured and an untextured submesh has been loaded and drawn
C17_Witness ==
    /\ Loaded
    /\ Rendered
    /\ Len(mesh.value.mesh_buffers) = 2
    /\ Untextured(1)
    /\ ~Untextured(2)

\* ---------------------------------------------------------------------- C18
\* the i-th mesh of the scene has no first UV channel
LacksUv(i) == scene.meshes[i].texture_coords = None

\* C18: when a mesh of the scene lacks UV coordinates load_gltf panics and
\* returns no Mesh; so in a loaded mesh every MeshBuffer has the UV buffer
\* built from its mesh's coordinates, and Mesh::render binds it as the third
\* vertex buffer without any failure.
C18_MissingUvIsFatalAtLoad ==
    /\ (mesh # NotLoaded /\ \E i \in 1..Len(scene.meshes) : LacksUv(i)) => ~Loaded
    /\ load_gltf(scene).ok => \A i \in 1..Len(scene.meshes) : ~LacksUv(i)
    /\ Loaded =>
          \A i \in 1..Len(mesh.value.mesh_buffers) :
             mesh.value.mesh_buffers[i].tex_coord_buffer =
                 CpuAccessibleBuffer("TexCoord", i, scene.meshes[i].texture_coords.value)
    /\ Rendered =>
          \A k \in 1..Len(builder) :
             /\ builder[k].op # "panic"
             /\ builder[k].op = "bind_vertex_buffers" =>
                   /\ Len(builder[k].arg.buffers) = 3
                   /\ builder[k].arg.buffers[3].of = "TexCoord"
                   /\ builder[k].arg.buffers[3].len > 0

\* the second mesh of a scene lacked UV coordinates and the load panicked on it
C18_Witness ==
    /\ mesh # NotLoaded
    /\ ~Loaded
    /\ mesh.panic = "Could not find texture coordinates"
    /\ Len(scene.meshes) = 2
    /\ ~LacksUv(1)
    /\ LacksUv(2)

\* ---------------------------------------------------------------------- C19
\* the last call on the camera ran Camera::update
AfterUpdate == last_call.op \in {"update", "get_uniform_buffer"}

\* entry (column c, row r) of the product a * b of two 4x4 matrices
ProductEntry(a, b, c, r) ==
    (a[1][r] * b[c][1]) + (a[2][r] * b[c][2]) + (a[3][r] * b[c][3]) + (a[4][r] * b[c][4])

\* C19: after Camera::update the view is the look-to matrix of the current
\* position, forward and up, and every entry of world_view is that of the
\* product view * world of the current view and world; after
\* get_uniform_buffer the world is the matrix supplied, the aspect ratio is
\* that of the swapchain extent, and the CameraData carries the camera's
\* world_view, world, view and proj.
C19_WorldViewIsViewTimesWorld ==
    /\ AfterUpdate =>
          /\ camera.view = look_to_rh(camera.position, camera.forward, camera.up)
          /\ camera.proj = perspective(camera.aspect_ratio)
          /\ \A c \in 1..4, r \in 1..4 :
                camera.world_view[c][r] = ProductEntry(camera.view, camera.world, c, r)
    /\ last_call.op = "get_uniform_buffer" =>
          /\ camera.world = last_call.arg
          /\ camera.aspect_ratio = swapchain.extent
          /\ \A c \in 1..4, r \in 1..4 :
                /\ uniform_data.world_view[c][r] = camera.world_view[c][r]
                /\ uniform_data.world[c][r] = camera.world[c][r]
                /\ uniform_data.view[c][r] = camera.view[c][r]
                /\ uniform_data.proj[c][r] = camera.proj[c][r]

\* a uniform payload has been built for a camera that was moved and turned
\* and a world matrix that does not commute with its view
C19_Witness ==
    /\ last_call.op = "get_uniform_buffer"
    /\ events > 0
    /\ camera.position # construct_camera.position
    /\ camera.forward # construct_camera.forward
    /\ \E c \in 1..4, r \in 1..4 :
          ProductEntry(camera.view, camera.world, c, r)
              # ProductEntry(camera.world, camera.view, c, r)

\* ---------------------------------------------------------------------- C20
\* C20: at every moment from construct_camera on, and so after every
\* update(), right is the cross product forward x up of the camera's current
\* forward and up, whether or not the roll modifier was held.
C20_RightIsForwardCrossUp ==
    /\ camera.right[1] =
          (camera.forward[2] * camera.up[3]) - (camera.forward[3] * camera.up[2])
    /\ camera.right[2] =
          (camera.forward[3] * camera.up[1]) - (camera.forward[1] * camera.up[3])
    /\ camera.right[3] =
          (camera.forward[1] * camera.up[2]) - (camera.forward[2] * camera.up[1])

\* update() has run on a camera that was turned with the roll modifier held
C20_Witness ==
    /\ last_call.op = "update"
    /\ events > 0
    /\ camera.up # unit_y
    /\ camera.forward # construct_camera.forward
    /\ camera.right # construct_camera.right

\* ---------------------------------------------------------------------- C21
\* C21: after a handle_event with the secondary mouse button held and control
\* not held, and after the update() that follows it, up is the world-up unit
\* vector (0, 1, 0), whatever up was before the event.
C21_UpIsWorldUpAfterUnrolledTurn ==
    (/\ last_call.op \in {"handle_event", "update"}
     /\ last_call.event.mouse_held
     /\ ~last_call.event.held_control)
        => camera.up = <<0, 1, 0>>

\* update() has followed a turn without control of a camera whose up had
\* been rolled off the world up axis
C21_Witness ==
    /\ last_call.op = "update"
    /\ last_call.event.mouse_held
    /\ ~last_call.event.held_control
    /\ last_call.event.rolled
    /\ camera.view = look_to_rh(camera.position, camera.forward, camera.up)

\* ---------------------------------------------------------------------- C22
\* C22: after any handle_event call with control not held, the secondary
\* mouse button held or not, up equals world-up.
C22_UpSnapsBackEveryFrame ==
    (/\ last_call.op = "handle_event"
     /\ ~last_call.event.held_control)
        => camera.up = <<0, 1, 0>>

\* ---------------------------------------------------------------------- C23
\* the shadow-map pass has been initialised
ShadowMapReady == shadow_map # NoShadowMap

\* C23: the shadow-map render pass has exactly one subpass and is depth-only:
\* the depth attachment is the only attachment it declares and the only one
\* its subpass writes, and the size of that attachment is a fixed constant
\* that does not follow the swapchain extent.
C23_ShadowPassIsDepthOnly ==
    ShadowMapReady =>
        /\ Len(shadow_map.render_pass.passes) = 1
        /\ DOMAIN shadow_map.render_pass.attachments = {"depth"}
        /\ shadow_map.render_pass.passes[1].color = <<>>
        /\ shadow_map.render_pass.passes[1].depth_stencil = <<"depth">>
        /\ shadow_map.shadow_map_buffer.dims = <<3000, 2000>>
        /\ shadow_map.framebuffer.depth = shadow_map.shadow_map_buffer

\* ---------------------------------------------------------------------- C24
\* the GPU has run the shadow pass of the recorded frame
ShadowPassDone == builder # <<>> /\ shadow_depth # "Unwritten"

\* position of the first command of the builder with the given op and argument
FirstCmd(op, arg) ==
    CHOOSE k \in 1..(Len(builder) + 1) :
        /\ k <= Len(builder) => (builder[k].op = op /\ builder[k].arg = arg)
        /\ \A j \in 1..(k - 1) : ~(builder[j].op = op /\ builder[j].arg = arg)

\* C24: after the shadow pass of a frame the shadow depth attachment holds
\* the depth values the pass wrote, and it is the image (created for
\* sampling) that binding 3 of the lighting descriptor set reads; the shadow
\* pass is begun with the shadow pipeline bound and is ended before the
\* deferred render pass begins.
C24_ShadowDepthRetainedForLighting ==
    ShadowPassDone =>
        /\ shadow_depth = "Written"
        /\ \E k \in 1..Len(builder) :
              /\ builder[k].op = "bind_descriptor_sets"
              /\ builder[k].arg.layout = deferred.lighting_pipeline
              /\ \E w \in 1..Len(builder[k].arg.sets[1].writes) :
                    /\ builder[k].arg.sets[1].writes[w].binding = 3
                    /\ builder[k].arg.sets[1].writes[w].resource
                          = shadow_map.shadow_map_buffer
        /\ builder[1] = Cmd("begin_render_pass", shadow_map.framebuffer)
        /\ builder[3] = Cmd("bind_pipeline_graphics", shadow_map.pipeline)
        /\ FirstCmd("end_render_pass", "")
              < FirstCmd("begin_render_pass", deferred.framebuffers[1])

\* ---------------------------------------------------------------------- C25
\* a lighting draw has shaded a texel
Shaded == fragment # NoFragment

\* C25: when the preview selector of the frame is Albedo, Normal or Position,
\* the output of the lighting draw at a texel is the value of the selected
\* input attachment at that texel, whatever the light parameters are; with
\* FinalOutput, and only then, the output is the lighting formula.
C25_PreviewCopiesSelectedBuffer ==
    Shaded =>
        /\ fragment.selector = "Albedo" => fragment.out = fragment.texel.albedo
        /\ fragment.selector = "Normal" => fragment.out = fragment.texel.normal
        /\ fragment.selector = "Position" => fragment.out = fragment.texel.position
        /\ fragment.selector = "FinalOutput" <=>
              fragment.out = Lit(lighting_uniform, fragment.texel)

\* a texel was shaded with Position selected and lights other than the defaults
C25_Witness ==
    /\ Shaded
    /\ fragment.selector = "Position"
    /\ fragment.out = <<5, 6, 7, 1>>
    /\ lighting_uniform.ambient_color # get_default_params.ambient_color

\* ---------------------------------------------------------------------- C27
\* LightingData as the claim describes it for the given RendererParams
LightingDataOf(params) ==
    [ambient_color |-> params.ambient_color,
     directional_direction |-> params.directional_direction,
     directional_color |-> params.directional_color,
     preview_type |-> IF params.preview_buffer = "FinalOutput" THEN 0
                      ELSE IF params.preview_buffer = "Albedo" THEN 1
                      ELSE IF params.preview_buffer = "Normal" THEN 2
                      ELSE 3]

\* C27: the lighting uniform changes only by being built, and then it holds
\* the selector as the integer value of the enum together with the ambient
\* colour, directional direction and directional colour of the RendererParams
\* as they are at that moment; a step in which the UI changes the params
\* leaves the uniform already built as it is.
C27_LightingUniformSnapshotsParams ==
    [][/\ lighting_uniform' # lighting_uniform =>
             /\ deferred' = deferred
             /\ lighting_uniform' = LightingDataOf(deferred.params)
       /\ (fragment' # fragment /\ fragment' # NoFragment) =>
             lighting_uniform' = LightingDataOf(deferred.params)]_vars

\* a uniform built with Normal selected and picked colours is still as built
\* after the UI has moved the params on
C27_Witness ==
    /\ lighting_uniform.preview_type = 2
    /\ lighting_uniform.ambient_color # get_default_params.ambient_color
    /\ deferred.params.preview_buffer = "Position"
    /\ deferred.params.ambient_color = get_default_params.ambient_color

\* ---------------------------------------------------------------------- C26
\* the framebuffer the recorded frame began its render pass with
BegunFramebuffer == command_buffer.commands[FirstOp(command_buffer.commands,
                                                    "begin_render_pass")].arg

\* the descriptor sets the recorded frame binds for its lighting draw
LightingSets ==
    {command_buffer.commands[k].arg.sets[1] :
        k \in {j \in 1..Len(command_buffer.commands) :
                 /\ command_buffer.commands[j].op = "bind_descriptor_sets"
                 /\ command_buffer.commands[j].arg.layout = deferred.lighting_pipeline}}

\* the resource a descriptor set holds at a binding
BoundAt(set, binding) ==
    {set.writes[w].resource :
        w \in {v \in 1..Len(set.writes) : set.writes[v].binding = binding}}

\* the iteration that recorded the command buffer is still running
RecordingIteration == pc \in {"finish_wait", "finish_submit", "finish_store"}

\* C26: in every recorded frame the views at bindings 0, 1 and 2 of the
\* lighting set are the albedo, normal and position attachments of the
\* framebuffer the frame began its render pass with, and while the iteration
\* that recorded it runs they are the attachments of the latest rebuild, so a
\* set from before a rebuild is not drawn with after it.
C26_LightingSetMatchesFramebuffer ==
    Recorded =>
        /\ LightingSets # {}
        /\ \A set \in LightingSets :
              /\ BoundAt(set, 0) = {BegunFramebuffer.albedo}
              /\ BoundAt(set, 1) = {BegunFramebuffer.normal}
              /\ BoundAt(set, 2) = {BegunFramebuffer.position}
              /\ RecordingIteration =>
                    /\ BegunFramebuffer = deferred.framebuffers[image_num + 1]
                    /\ BoundAt(set, 0) = {deferred.color_buffer}
                    /\ BoundAt(set, 1) = {deferred.normal_buffer}
                    /\ BoundAt(set, 2) = {deferred.position_buffer}
                    /\ \A b \in 0..2 : \A r \in BoundAt(set, b) : r.id = swapchain.gen

\* a frame recorded after a rebuild, while a frame recorded before it is
\* still in flight
C26_Witness ==
    /\ Recorded
    /\ RecordingIteration
    /\ swapchain.gen > 0
    /\ BegunFramebuffer.albedo.id = swapchain.gen
    /\ InFlight # {}

\* ---------------------------------------------------------------------- C28
\* the viewports the recorded frame sets while its geometry pass is recorded
SetViewports ==
    {command_buffer.commands[k].arg :
        k \in {j \in 1..Len(command_buffer.commands) :
                 command_buffer.commands[j].op = "set_viewport"}}

\* C28: while the iteration that recorded a frame runs, System.viewport, the
\* viewport the frame's geometry pass sets and the size of its G-buffer
\* attachments all equal the extent of the current swapchain, whichever of
\* the deferred pass and the shadow-map pass was initialised last and
\* whatever rebuilds succeeded or were skipped before.
C28_ViewportIsSwapchainExtent ==
    (Recorded /\ RecordingIteration) =>
        /\ viewport = swapchain.extent
        /\ SetViewports = {swapchain.extent}
        /\ BegunFramebuffer.albedo.dims = swapchain.extent
        /\ BegunFramebuffer.normal.dims = swapchain.extent
        /\ BegunFramebuffer.position.dims = swapchain.extent
        /\ BegunFramebuffer.depth.dims = swapchain.extent

\* the first rebuild since both passes were initialised went to an extent
\* other than the shadow map's size, and a frame was recorded after it
C28_Witness ==
    /\ Recorded
    /\ RecordingIteration
    /\ swapchain.gen = 1
    /\ swapchain.extent # shadow_map.shadow_map_buffer.dims
    /\ SetViewports = {swapchain.extent}

\* ---------------------------------------------------------------------- C29
\* what a step may do to recreate_swapchain
RecreateFlagStep ==
    /\ (recreate_swapchain /\ ~recreate_swapchain') =>
          /\ pc = "recreate"
          /\ pc' = "acquire"
          /\ swapchain'.gen = swapchain.gen + 1
          /\ swapchain'.extent = winSize
    /\ (pc = "acquire" /\ pc' = "idle") => recreate_swapchain'
    /\ (pc = "acquire" /\ pc' = "record" /\ faults' # faults) => recreate_swapchain'
    /\ (pc = "finish_store" /\ pc' = "idle" /\ flushResult = "OutOfDate") =>
          recreate_swapchain'

\* C29: recreate_swapchain is true after init; a stale acquisition, a
\* suboptimal acquisition (after which the frame goes on to recording) and a
\* stale present each leave it true; and it goes from true to false only in
\* a handle_recreate_swapchain step that stores a recreated swapchain of the
\* window's size. No other step clears it.
C29_RecreateFlagSticky == (recreate_swapchain = TRUE) /\ [][RecreateFlagStep]_vars

\* the flag set by a suboptimal acquisition has outlived the finish_frame of
\* that frame, which submitted without an error
C29_Witness ==
    /\ EndedWith("store:Ok")
    /\ InTrace("acquire:Ok")
    /\ recreate_swapchain
    /\ swapchain.gen > 0

\* ---------------------------------------------------------------------- C30
\* C30: once the deferred pass exists, System.images holds the images of the
\* swapchain stored in System.swapchain, and the framebuffers are built on
\* those same images, so the three describe one swapchain generation.
C30_ImagesFollowSwapchain ==
    deferred # NoDeferred =>
        /\ images = SwapchainImages(swapchain)
        /\ Len(deferred.framebuffers) = Len(images)
        /\ \A i \in 1..Len(images) : deferred.framebuffers[i].view = images[i]

====
